---- MODULE Spec2Model ----
(***************************************************************************)
(* IsoQuant (src/src/iso_quant_app.py): the calibration / quantification   *)
(* state of class App and the handlers that change it.                     *)
(*                                                                         *)
(* Numbers.  A float is modelled as an exact rational <<n, d>> in lowest   *)
(* terms with d > 0; the missing value (numpy nan / pandas NA) is <<0, 0>>.*)
(* A value that the code obtains with a square root (np.std, np.sqrt) is   *)
(* carried as its square: the fields Y, AA, ERR_d18O, ERR_d2H of a         *)
(* quantification row hold the squares of the code's values.               *)
(*                                                                         *)
(* Optional values.  Python's None is the empty tuple <<>>, a present      *)
(* value v is <<v>>.  A DataFrame is the sequence of its rows.             *)
(*                                                                         *)
(* Text.  A cell or entry text is a sequence of tokens (strings); the      *)
(* string functions of the code act token by token.                        *)
(***************************************************************************)
EXTENDS Integers, Sequences, FiniteSets, TLC

\* ------------------------------------------------------------------ bounds
\* the longest raw_means sheet made of every combination of RowPool rows
MaxRows == 2

\* the longest sheet made of every combination of StdRowPool rows
MaxStdRows == 2

\* the longest point list given to the channel fit
MaxPoints == 3

\* the bits of the significand of the floats of the one-point fit
Precision == 5

\* the raw values of the one-point fit are the quarters down to -MaxQuarter/4
MaxQuarter == 100
\* ------------------------------------------------------------------- state
VARIABLES
    rm_df,             \* App.rm_df: None or the loaded raw_means frame
    curves,            \* App.curves
    curves_summary,    \* App.curves_summary: None or a frame
    quant_df,          \* App.quant_df: None or a frame
    custom_quant_df,   \* App.custom_quant_df: None or a frame
    std_targets,       \* App.std_targets
    dialog,            \* the targets dialog: None, or its entries while it is open
    custom_window,     \* TRUE while the custom quantification window is open
    msg,               \* the message box the last handler showed
    file,              \* the file the last load was given
    df,                \* App.df: None or the loaded injection frame
    sample_items,      \* App.sample_items
    current_analysis,  \* App.current_analysis
    analysis_vars,     \* App.analysis_vars: the (inj, var) pairs of the list
    only_stable,       \* App.only_stable
    sample_selections, \* App.sample_selections
    raw_means,         \* the raw_means columns of App.df: the statistics written per Analysis
    call,              \* a call of one of the module's functions, and its result
    memo               \* history of compute_quant_table: its first and last call

csv_side ==
    <<df, sample_items, current_analysis, analysis_vars, only_stable, sample_selections,
      raw_means>>

vars ==
    <<rm_df, curves, curves_summary, quant_df, custom_quant_df, std_targets, dialog,
      custom_window, msg, file, csv_side, call, memo>>

\* ----------------------------------------------------------------- numbers
NaN == <<0, 0>>

isna(x) == x[2] = 0

notna(x) == x[2] # 0

Abs(n) == IF n < 0 THEN -n ELSE n

RECURSIVE Gcd(_, _)
Gcd(a, b) == IF b = 0 THEN a ELSE Gcd(b, a % b)

NormBy(n, d, g) == IF d < 0 THEN <<(-n) \div g, (-d) \div g>> ELSE <<n \div g, d \div g>>

Norm(n, d) == IF d = 0 THEN NaN ELSE NormBy(n, d, Gcd(Abs(n), Abs(d)))

Num(n) == <<n, 1>>

\* x + y over the least common denominator, so that the products stay small
AddBy(x, y, g) == Norm(x[1] * (y[2] \div g) + y[1] * (x[2] \div g), (x[2] \div g) * y[2])

Add(x, y) == IF isna(x) \/ isna(y) THEN NaN ELSE AddBy(x, y, Gcd(x[2], y[2]))

Neg(x) == <<-x[1], x[2]>>

Sub(x, y) == Add(x, Neg(y))

\* x * y, the common factors cancelled before the products are taken
MulBy(x, y, g1, g2) ==
    Norm((x[1] \div g1) * (y[1] \div g2), (x[2] \div g2) * (y[2] \div g1))

Mul(x, y) ==
    IF isna(x) \/ isna(y) THEN NaN
    ELSE IF x[1] = 0 \/ y[1] = 0 THEN <<0, 1>>
    ELSE MulBy(x, y, Gcd(Abs(x[1]), y[2]), Gcd(Abs(y[1]), x[2]))

\* x / y; a division by zero gives nan
Div(x, y) ==
    IF isna(x) \/ isna(y) \/ y[1] = 0 THEN NaN
    ELSE IF y[1] < 0 THEN Mul(x, <<-y[2], -y[1]>>) ELSE Mul(x, <<y[2], y[1]>>)

Less(x, y) == notna(x) /\ notna(y) /\ x[1] * y[2] < y[1] * x[2]

Leq(x, y) == notna(x) /\ notna(y) /\ x[1] * y[2] <= y[1] * x[2]

RECURSIVE SumSeq(_)
SumSeq(s) == IF s = <<>> THEN Num(0) ELSE Add(Head(s), SumSeq(Tail(s)))

RECURSIVE DropNa(_)
DropNa(s) ==
    IF s = <<>> THEN <<>>
    ELSE IF isna(Head(s)) THEN DropNa(Tail(s)) ELSE <<Head(s)>> \o DropNa(Tail(s))

MeanOf(v) == IF v = <<>> THEN NaN ELSE Div(SumSeq(v), Num(Len(v)))

\* Series.mean() / np.nanmean: the mean of the non-missing values, nan when none
nanmean(s) == MeanOf(DropNa(s))

SumSqDevFrom(v, m) == SumSeq([i \in 1..Len(v) |-> Mul(Sub(v[i], m), Sub(v[i], m))])

\* the sum of the squared deviations from the mean
SumSqDev(v) == SumSqDevFrom(v, MeanOf(v))

\* np.std(arr, ddof=1) squared: the sample variance
SampleVar(v) == Div(SumSqDev(v), Num(Len(v) - 1))

\* the variance with divisor n (np.std with ddof=0, squared)
PopulationVarOf(arr) == IF Len(arr) < 2 THEN Num(0) ELSE Div(SumSqDev(arr), Num(Len(arr)))

RowStdOf(arr) == IF Len(arr) < 2 THEN Num(0) ELSE SampleVar(arr)

\* the square of row_std
row_std(values) == RowStdOf(DropNa(values))

\* -------------------------------------------------------------------- text
\* str.upper() on one token
Upper(t) ==
    CASE t = "nivolet" -> "NIVOLET"
      [] t = "Ormea"   -> "ORMEA"
      [] t = "ormea"   -> "ORMEA"
      [] t = "s1"      -> "S1"
      [] OTHER         -> t

RECURSIVE LStrip(_)
LStrip(s) == IF s # <<>> /\ Head(s) = " " THEN LStrip(Tail(s)) ELSE s

RECURSIVE RStrip(_)
RStrip(s) == IF s # <<>> /\ s[Len(s)] = " " THEN RStrip(SubSeq(s, 1, Len(s) - 1)) ELSE s

\* str.strip()
Strip(s) == RStrip(LStrip(s))

\* str.replace(" ", "")
RemoveSpaces(s) == SelectSeq(s, LAMBDA t : t # " ")

RECURSIVE Join(_)
Join(s) == IF s = <<>> THEN "" ELSE Head(s) \o Join(Tail(s))

StripDot(u) == IF u # <<>> /\ u[Len(u)] = "." THEN SubSeq(u, 1, Len(u) - 1) ELSE u

UpperAll(s) == [i \in 1..Len(s) |-> Upper(s[i])]

\* norm_std_name on a token sequence; the result is a string
norm_std_name(s) == Join(StripDot(RemoveSpaces(UpperAll(Strip(s)))))

\* --------------------------------------------------------------- standards
\* default_standards of load_standards_from_excel, the value of STD_DEFAULTS
\* when no standards.xlsx is found
STD_DEFAULTS ==
    [n \in {"NIVOLET", "ORMEA", "H2OPI", "SSW"} |->
        CASE n = "NIVOLET" -> [O18 |-> Norm(-2247, 100), H2 |-> Norm(-1716, 10)]
          [] n = "ORMEA"   -> [O18 |-> Norm(-1152, 100), H2 |-> Norm(-779, 10)]
          [] n = "H2OPI"   -> [O18 |-> Norm(-668, 100),  H2 |-> Norm(-394, 10)]
          [] n = "SSW"     -> [O18 |-> Norm(-54, 100),   H2 |-> Norm(-22, 10)]]

STD_NAMES == DOMAIN STD_DEFAULTS

\* sorted(names): the order of groupby("STD_NAME") and of the dialog entries
NameOrder == <<"H2OPI", "NIVOLET", "ORMEA", "SSW">>

SortedNames(S) == SelectSeq(NameOrder, LAMBDA n : n \in S)

\* ------------------------------------------------------------ fit (numpy)
\* np.linalg.lstsq on A = [x, 1]: the least-squares line; when every x is the
\* same value c the system is rank deficient and lstsq returns the solution of
\* least norm, (a, b) = mean(y) * (c, 1) / (c*c + 1)
LstsqRank1(Sy, n, c) == <<Mul(Div(Div(Sy, n), Add(Mul(c, c), Num(1))), c),
                           Div(Div(Sy, n), Add(Mul(c, c), Num(1)))>>

LstsqLine(n, Sx, Sy, a) == <<a, Div(Sub(Sy, Mul(a, Sx)), n)>>

LstsqSolve(n, Sx, Sy, Sxy, D, c) ==
    IF D[1] # 0
    THEN LstsqLine(n, Sx, Sy, Div(Sub(Mul(n, Sxy), Mul(Sx, Sy)), D))
    ELSE LstsqRank1(Sy, n, c)

LstsqSums(n, Sx, Sy, Sxx, Sxy, c) ==
    LstsqSolve(n, Sx, Sy, Sxy, Sub(Mul(n, Sxx), Mul(Sx, Sx)), c)

lstsq(x, y) ==
    LstsqSums(Num(Len(x)), SumSeq(x), SumSeq(y),
              SumSeq([i \in 1..Len(x) |-> Mul(x[i], x[i])]),
              SumSeq([i \in 1..Len(x) |-> Mul(x[i], y[i])]), x[1])

Square(v) == Mul(v, v)

SsRes(x, y, a, b) == SumSeq([i \in 1..Len(x) |-> Square(Sub(y[i], Add(Mul(a, x[i]), b)))])

ClampLow(q) == IF Less(q, Num(0)) THEN Num(0) ELSE q

\* an R2 without the test of ss_tot == 0
R2Unguarded(ss_res, ss_tot) == ClampLow(Sub(Num(1), Div(ss_res, ss_tot)))

R2Of(ss_res, ss_tot) ==
    IF ss_tot[1] = 0 THEN Num(1) ELSE ClampLow(Sub(Num(1), Div(ss_res, ss_tot)))

FitOfLine(x, y, ab) == <<ab[1], ab[2], R2Of(SsRes(x, y, ab[1], ab[2]), SumSqDev(y))>>

fit_linear_with_r2(x, y) == FitOfLine(x, y, lstsq(x, y))

\* ------------------------------------------------------------ number text
\* An entry text is a sequence of one-character tokens.
DigitChars == <<"0", "1", "2", "3", "4", "5", "6", "7", "8", "9">>

IsDigit(c) == \E k \in 1..Len(DigitChars) : DigitChars[k] = c

DigitVal(c) == (CHOOSE k \in 1..Len(DigitChars) : DigitChars[k] = c) - 1

RECURSIVE DigitsValue(_, _)
DigitsValue(s, acc) ==
    IF s = <<>> THEN acc ELSE DigitsValue(Tail(s), acc * Len(DigitChars) + DigitVal(Head(s)))

RECURSIVE Pow10(_)
Pow10(k) == IF k = 0 THEN 1 ELSE Len(DigitChars) * Pow10(k - 1)

\* float(text) for a decimal literal [sign] digits [. digits]; nan stands for
\* the ValueError of any other text
ParseParts(neg, ip, fp) ==
    IF /\ Len(ip) + Len(fp) >= 1
       /\ \A k \in 1..Len(ip) : IsDigit(ip[k])
       /\ \A k \in 1..Len(fp) : IsDigit(fp[k])
    THEN Norm(IF neg THEN -DigitsValue(ip \o fp, 0) ELSE DigitsValue(ip \o fp, 0),
              Pow10(Len(fp)))
    ELSE NaN

ParseBody(neg, body, dots) ==
    IF dots = {} THEN ParseParts(neg, body, <<>>)
    ELSE IF Cardinality(dots) > 1 THEN NaN
    ELSE ParseParts(neg, SubSeq(body, 1, (CHOOSE k \in dots : TRUE) - 1),
                    SubSeq(body, (CHOOSE k \in dots : TRUE) + 1, Len(body)))

ParseSigned(neg, body) == ParseBody(neg, body, {k \in 1..Len(body) : body[k] = "."})

ParseFloat(t) ==
    IF t # <<>> /\ Head(t) \in {"-", "+"}
    THEN ParseSigned(Head(t) = "-", Tail(t))
    ELSE ParseSigned(FALSE, t)

\* parse_num: the decimal comma is accepted, an unparsable text gives nan
parse_num(s) == ParseFloat([k \in 1..Len(s) |-> IF s[k] = "," THEN "." ELSE s[k]])

RECURSIVE DigitsOf(_)
DigitsOf(n) ==
    IF n < Len(DigitChars) THEN <<DigitChars[n + 1]>>
    ELSE Append(DigitsOf(n \div Len(DigitChars)), DigitChars[(n % Len(DigitChars)) + 1])

\* the fraction digits of q (a value with finitely many decimals), at least one
RECURSIVE FracDigits(_, _)
FracDigits(num, den) ==
    IF (num * Len(DigitChars)) % den = 0
    THEN <<DigitChars[((num * Len(DigitChars)) \div den) + 1]>>
    ELSE <<DigitChars[((num * Len(DigitChars)) \div den) + 1]>>
         \o FracDigits((num * Len(DigitChars)) % den, den)

\* f"{x}" for a float x: the shortest decimal text, with a fraction part
FormatFloat(q) ==
    (IF q[1] < 0 THEN <<"-">> ELSE <<>>)
        \o DigitsOf(Abs(q[1]) \div q[2]) \o <<".">> \o FracDigits(Abs(q[1]) % q[2], q[2])

\* ------------------------------------------------------------------ tables
None == <<>>

Some(v) == <<v>>

Range(s) == {s[i] : i \in 1..Len(s)}

\* rm.sort_values(["Analysis","Inj Nr"]), as a stable insertion sort
RECURSIVE InsertByAnalysis(_, _)
InsertByAnalysis(r, s) ==
    IF s = <<>> THEN <<r>>
    ELSE IF r.Analysis < Head(s).Analysis THEN <<r>> \o s
    ELSE <<Head(s)>> \o InsertByAnalysis(r, Tail(s))

RECURSIVE SortByAnalysis(_)
SortByAnalysis(s) ==
    IF s = <<>> THEN <<>>
    ELSE InsertByAnalysis(s[Len(s)], SortByAnalysis(SubSeq(s, 1, Len(s) - 1)))

\* rm_df.sort_values("Analysis_num")
RECURSIVE InsertByAnalysisNum(_, _)
InsertByAnalysisNum(r, s) ==
    IF s = <<>> THEN <<r>>
    ELSE IF r.Analysis_num < Head(s).Analysis_num THEN <<r>> \o s
    ELSE <<Head(s)>> \o InsertByAnalysisNum(r, Tail(s))

RECURSIVE SortByAnalysisNum(_)
SortByAnalysisNum(s) ==
    IF s = <<>> THEN <<>>
    ELSE InsertByAnalysisNum(s[Len(s)], SortByAnalysisNum(SubSeq(s, 1, Len(s) - 1)))

\* analysis_number: the last run of digits of the Analysis text.  An Analysis
\* is modelled by that number (texts of one width, so that the order of the
\* texts is the order of the numbers).
analysis_number(a) == a

\* the columns load_excel_raw_means requires
RmNeeded == {"Analysis", "Inj Nr", "d18Om", "d2Hm", "Identifier 1"}

\* a load without the dropna: every row of the sheet is kept
KeepAllRows(rm) == rm

\* rm.dropna(subset=["d18Om","d2Hm"], how="all")
DropAllMissing(rm) == SelectSeq(rm, LAMBDA r : ~(isna(r.d18Om) /\ isna(r.d2Hm)))

\* the enrichments of one row: the stripped identifier, STD_NAME, Analysis_num
EnrichRow(r, ident) ==
    [Analysis     |-> r.Analysis,
     Analysis_num |-> analysis_number(r.Analysis),
     d18Om        |-> r.d18Om,
     d2Hm         |-> r.d2Hm,
     Identifier1  |-> ident,
     d18Osd       |-> r.d18Osd,
     d2Hsd        |-> r.d2Hsd,
     STD_NAME     |-> norm_std_name(ident)]

Enrich(valid) == [i \in 1..Len(valid) |-> EnrichRow(valid[i], Strip(valid[i].Identifier1))]

\* load_excel_raw_means, from the sort to the final rm_df
PrepareRawMeans(rm) == SortByAnalysisNum(Enrich(DropAllMissing(SortByAnalysis(rm))))

\* ------------------------------------------------------- block detection
\* a scan that stops only when the first name of the sequence comes back
RECURSIVE ScanUntilFirstAgain(_, _)
ScanUntilFirstAgain(seq, seen) ==
    IF seq = <<>> THEN Len(seen)
    ELSE IF seen # <<>> /\ Head(seq) = seen[1] THEN Len(seen)
    ELSE ScanUntilFirstAgain(Tail(seq), Append(seen, Head(seq)))

\* a scan that takes at most the first three names as the base pattern
RECURSIVE ScanFirstThree(_, _)
ScanFirstThree(seq, seen) ==
    IF seq = <<>> \/ Len(seen) = 3 THEN Len(seen)
    ELSE IF Head(seq) \in Range(seen) THEN Len(seen)
    ELSE ScanFirstThree(Tail(seq), Append(seen, Head(seq)))

\* the scan of detect_curves_from_blocks for the base pattern
RECURSIVE ScanPattern(_, _)
ScanPattern(seq, seen) ==
    IF seq = <<>> THEN Len(seen)
    ELSE IF Head(seq) \in Range(seen) THEN Len(seen)
    ELSE ScanPattern(Tail(seq), Append(seen, Head(seq)))

pattern_length(std_sequence) == ScanPattern(std_sequence, <<>>)

\* a grouping loop without the final "if current_block": an incomplete last
\* block is lost
RECURSIVE ChunkDroppingTail(_, _, _)
ChunkDroppingTail(rows, current_block, L) ==
    IF rows = <<>> THEN <<>>
    ELSE IF Len(current_block) + 1 = L
    THEN <<Append(current_block, Head(rows))>> \o ChunkDroppingTail(Tail(rows), <<>>, L)
    ELSE ChunkDroppingTail(Tail(rows), Append(current_block, Head(rows)), L)

\* the grouping loop: a block is closed every pattern_length rows, an
\* incomplete last block is kept
RECURSIVE Chunk(_, _, _)
Chunk(rows, current_block, L) ==
    IF rows = <<>> THEN (IF current_block # <<>> THEN <<current_block>> ELSE <<>>)
    ELSE IF Len(current_block) + 1 = L
    THEN <<Append(current_block, Head(rows))>> \o Chunk(Tail(rows), <<>>, L)
    ELSE Chunk(Tail(rows), Append(current_block, Head(rows)), L)

BlocksBy(std_rows, L) == IF L > 0 THEN Chunk(std_rows, <<>>, L) ELSE <<std_rows>>

BlocksOf(std_rows) ==
    BlocksBy(std_rows, pattern_length([i \in 1..Len(std_rows) |-> std_rows[i].STD_NAME]))

StdRows(rows) == SelectSeq(rows, LAMBDA r : r.STD_NAME \in STD_NAMES)

\* a grouping that keeps the first row of a name instead of the mean
GroupFirst(n, g) == [d18Om |-> g[1].d18Om, d2Hm |-> g[1].d2Hm, STD_NAME |-> n]

GroupMean(n, g) ==
    [d18Om    |-> nanmean([i \in 1..Len(g) |-> g[i].d18Om]),
     d2Hm     |-> nanmean([i \in 1..Len(g) |-> g[i].d2Hm]),
     STD_NAME |-> n]

GroupMeansOf(dfb, names) ==
    [k \in 1..Len(names) |->
        GroupMean(names[k], SelectSeq(dfb, LAMBDA r : r.STD_NAME = names[k]))]

\* dfb.groupby("STD_NAME").agg(mean): one row per name, in sorted order
GroupMeans(dfb) == GroupMeansOf(dfb, SortedNames({dfb[i].STD_NAME : i \in 1..Len(dfb)}))

\* Binary floating point with a significand of Precision bits (the code's
\* floats have 53): the float nearest to q, ties to the even significand
RoundHalfEven(n, d) ==
    IF 2 * (n % d) < d THEN n \div d
    ELSE IF 2 * (n % d) > d THEN (n \div d) + 1
    ELSE IF (n \div d) % 2 = 0 THEN n \div d ELSE (n \div d) + 1

RECURSIVE Pow2(_)
Pow2(k) == IF k = 0 THEN 1 ELSE 2 * Pow2(k - 1)

\* n/d > 0 is the value times up/down; it is scaled into [2^(p-1), 2^p)
RECURSIVE FloatOf(_, _, _, _)
FloatOf(n, d, up, down) ==
    IF n < Pow2(Precision - 1) * d THEN FloatOf(2 * n, d, 2 * up, down)
    ELSE IF n >= Pow2(Precision) * d THEN FloatOf(n, 2 * d, up, 2 * down)
    ELSE Norm(RoundHalfEven(n, d) * down, up)

Float(q) ==
    IF isna(q) \/ q[1] = 0 THEN q
    ELSE IF q[1] < 0 THEN Neg(FloatOf(-q[1], q[2], 1, 1)) ELSE FloatOf(q[1], q[2], 1, 1)

\* a one-point branch that returns the neutral coefficients of an empty channel
FloatNoPoint(x, y) == <<Num(1), Num(0), Num(0)>>

\* the one-point branch in floating point: 1.0, float(y[0] - x[0]), 0.0
FloatOnePoint(x, y) == <<Num(1), Float(Sub(y, x)), Num(0)>>

\* c["a18"]*float(d18Om) + c["b18"] in floating point
FloatReconciled(a, b, raw) == Float(Add(Float(Mul(a, raw)), b))

\* the spacing of the floats at n/d > 0: 2^(e - Precision + 1), e its exponent
RECURSIVE UlpOf(_, _, _, _)
UlpOf(n, d, up, down) ==
    IF n < Pow2(Precision - 1) * d THEN UlpOf(2 * n, d, 2 * up, down)
    ELSE IF n >= Pow2(Precision) * d THEN UlpOf(n, 2 * d, up, 2 * down)
    ELSE Norm(down, up)

Ulp(q) == IF q[1] = 0 THEN Num(0) ELSE UlpOf(Abs(q[1]), q[2], 1, 1)

\* one floating-point operation: the float nearest to the exact result (each
\* operand is a value, taken once)
FloatAdd(x, y) == CHOOSE f \in {Float(Add(u, w)) : u \in {x}, w \in {y}} : TRUE

FloatSub(x, y) == CHOOSE f \in {Float(Sub(u, w)) : u \in {x}, w \in {y}} : TRUE

FloatMul(x, y) == CHOOSE f \in {Float(Mul(u, w)) : u \in {x}, w \in {y}} : TRUE

FloatDiv(x, y) == CHOOSE f \in {Float(Div(u, w)) : u \in {x}, w \in {y}} : TRUE

\* np.sum / np.mean on a short array: the elements are added one by one
RECURSIVE FloatSumFrom(_, _)
FloatSumFrom(acc, s) ==
    IF s = <<>> THEN acc ELSE FloatSumFrom(FloatAdd(acc, Head(s)), Tail(s))

FloatSum(s) == IF s = <<>> THEN Num(0) ELSE FloatSumFrom(Head(s), Tail(s))

FloatMean(y) == FloatDiv(FloatSum(y), Num(Len(y)))

FloatSquare(v) == FloatMul(v, v)

\* np.sum((y - np.mean(y))**2)
FloatSsTot(y, m) == FloatSum([i \in 1..Len(y) |-> FloatSquare(FloatSub(y[i], m))])

\* np.sum((y - (a*x + b))**2)
FloatSsRes(x, y, a, b) ==
    FloatSum([i \in 1..Len(x) |->
                 FloatSquare(FloatSub(y[i], FloatAdd(FloatMul(a, x[i]), b)))])

\* r2 = 1.0 if ss_tot == 0 else max(0.0, 1.0 - ss_res/ss_tot)
FloatR2(ss_res, ss_tot) ==
    IF ss_tot[1] = 0 THEN Num(1) ELSE ClampLow(FloatSub(Num(1), FloatDiv(ss_res, ss_tot)))

\* np.linalg.lstsq in floating point.  The routine is backward stable, not
\* exact: which float near the exact coefficient it returns depends on the
\* LAPACK build.  The outcomes are the rounded exact slope with the rounded
\* exact intercept or one of its two neighbours.
FloatLstsqNear(a, b) == {<<a, b>>, <<a, Add(b, Ulp(b))>>, <<a, Sub(b, Ulp(b))>>}

FloatLstsq(x, y) == UNION {FloatLstsqNear(Float(ab[1]), Float(ab[2])) : ab \in {lstsq(x, y)}}

FloatFitBy(a, b, ss_res, ss_tot) == <<a, b, FloatR2(ss_res, ss_tot)>>

\* fit_linear_with_r2 in floating point, for the coefficients ab of lstsq
FloatFitOf(x, y, ab) ==
    FloatFitBy(ab[1], ab[2], FloatSsRes(x, y, ab[1], ab[2]), FloatSsTot(y, FloatMean(y)))

\* the coefficients of one channel from its points
ChannelFit(x, y) ==
    IF Len(x) >= 2 THEN fit_linear_with_r2(x, y)
    ELSE IF Len(x) = 1 THEN <<Num(1), Sub(y[1], x[1]), Num(0)>>
    ELSE <<Num(1), Num(0), Num(0)>>

MakeCurve(i, used, x18, y18, f18, x2, y2, f2) ==
    [id |-> "cal" \o ToString(i), std_used |-> used,
     pts18_x |-> x18, pts18_y |-> y18,
     a18 |-> f18[1], b18 |-> f18[2], R2_18 |-> f18[3],
     pts2_x |-> x2, pts2_y |-> y2,
     a2 |-> f2[1], b2 |-> f2[2], R2_2 |-> f2[3],
     enabled |-> TRUE]

\* a curve whose channel without points takes the fit of the other channel
CurveOfPointsShared(i, used, x18, y18, x2, y2) ==
    IF used = {} THEN <<>>
    ELSE <<MakeCurve(i, used,
                     x18, y18, IF x18 = <<>> THEN ChannelFit(x2, y2) ELSE ChannelFit(x18, y18),
                     x2, y2, IF x2 = <<>> THEN ChannelFit(x18, y18) ELSE ChannelFit(x2, y2))>>

CurveOfPoints(i, used, x18, y18, x2, y2) ==
    IF used = {} THEN <<>>
    ELSE <<MakeCurve(i, used, x18, y18, ChannelFit(x18, y18), x2, y2, ChannelFit(x2, y2))>>

CurveOfChannels(i, gb, g18, g2, targets) ==
    CurveOfPoints(i, {gb[k].STD_NAME : k \in 1..Len(gb)},
                  [k \in 1..Len(g18) |-> g18[k].d18Om],
                  [k \in 1..Len(g18) |-> targets[g18[k].STD_NAME].O18],
                  [k \in 1..Len(g2) |-> g2[k].d2Hm],
                  [k \in 1..Len(g2) |-> targets[g2[k].STD_NAME].H2])

CurveOfGroups(i, gb, targets) ==
    CurveOfChannels(i, gb, SelectSeq(gb, LAMBDA rr : notna(rr.d18Om)),
                    SelectSeq(gb, LAMBDA rr : notna(rr.d2Hm)), targets)

\* the curve of block number i, or <<>> when the block has no recognised standard
CurveOfBlock(i, dfb, targets) ==
    CurveOfGroups(i, SelectSeq(GroupMeans(dfb), LAMBDA rr : rr.STD_NAME \in DOMAIN targets),
                  targets)

RECURSIVE CurvesOfBlocks(_, _, _)
CurvesOfBlocks(i, blocks, targets) ==
    IF i > Len(blocks) THEN <<>>
    ELSE (IF blocks[i] = <<>> THEN <<>> ELSE CurveOfBlock(i, blocks[i], targets))
         \o CurvesOfBlocks(i + 1, blocks, targets)

SummaryOf(cs) ==
    [k \in 1..Len(cs) |->
        [a18 |-> cs[k].a18, b18 |-> cs[k].b18, R2_18 |-> cs[k].R2_18,
         a2 |-> cs[k].a2, b2 |-> cs[k].b2, R2_2 |-> cs[k].R2_2,
         Curve |-> cs[k].id, Standards |-> cs[k].std_used]]

DetectedFrom(cs) == <<cs, Some(SummaryOf(cs))>>

DetectFromStdRows(std_rows, targets, old_summary) ==
    IF std_rows = <<>> THEN <<(<<>>), old_summary>>
    ELSE DetectedFrom(CurvesOfBlocks(1, BlocksOf(std_rows), targets))

\* detect_curves_from_blocks: the new <<curves, curves_summary>>; the early
\* return on a table without standards leaves curves_summary as it was
detect_curves_from_blocks(rm, targets, old_summary) ==
    DetectFromStdRows(StdRows(rm), targets, old_summary)

\* ---------------------------------------------------------- quantification
\* a quantification over every curve of the list, the disabled ones too
AllCurves(cs) == cs

EnabledCurves(cs) == SelectSeq(cs, LAMBDA c : c.enabled)

\* a selection of samples that keeps the standard rows too
UnknownsAndStandards(rm) == rm

Unknowns(rm) == SelectSeq(rm, LAMBDA r : r.STD_NAME \notin STD_NAMES)

\* a missing SD left missing
KeepNa(v) == v

ZeroIfNa(v) == IF isna(v) THEN Num(0) ELSE v

QuantRowOf(r, ric18, ric2, Y, AA) ==
    [Analysis |-> r.Analysis, Identifier1 |-> r.Identifier1,
     d18Osd |-> r.d18Osd, d2Hsd |-> r.d2Hsd,
     Y |-> Y, AA |-> AA,
     d18O_ric |-> ric18, d2H_ric |-> ric2,
     d18Omean |-> nanmean(ric18), d2Hmean |-> nanmean(ric2),
     ERR_d18O |-> Add(Square(ZeroIfNa(r.d18Osd)), Y),
     ERR_d2H  |-> Add(Square(ZeroIfNa(r.d2Hsd)), AA)]

QuantRowRic(r, ric18, ric2) == QuantRowOf(r, ric18, ric2, row_std(ric18), row_std(ric2))

\* a row loop that takes a missing raw value as 0
QuantRowZeroFilled(r, cs) ==
    QuantRowRic(r,
        [k \in 1..Len(cs) |-> Add(Mul(cs[k].a18, ZeroIfNa(r.d18Om)), cs[k].b18)],
        [k \in 1..Len(cs) |-> Add(Mul(cs[k].a2, ZeroIfNa(r.d2Hm)), cs[k].b2)])

\* one output row of compute_quant_table / _compute_custom_quant
QuantRow(r, cs) ==
    QuantRowRic(r,
        [k \in 1..Len(cs) |->
            IF isna(r.d18Om) THEN NaN ELSE Add(Mul(cs[k].a18, r.d18Om), cs[k].b18)],
        [k \in 1..Len(cs) |->
            IF isna(r.d2Hm) THEN NaN ELSE Add(Mul(cs[k].a2, r.d2Hm), cs[k].b2)])

QuantRows(samples, cs) == [i \in 1..Len(samples) |-> QuantRow(samples[i], cs)]

QuantOfSamples(samples, cs) ==
    IF samples = <<>> THEN Some(<<>>) ELSE Some(QuantRows(samples, EnabledCurves(cs)))

\* a compute_quant_table that does not clear quant_df first: when there is
\* nothing to compute, the table of the previous computation stays
compute_quant_table_keeping(rm, cs) ==
    IF rm = None \/ rm[1] = <<>> \/ cs = <<>> THEN quant_df
    ELSE QuantOfSamples(Unknowns(rm[1]), cs)

\* compute_quant_table: the new quant_df
compute_quant_table(rm, cs) ==
    IF rm = None \/ rm[1] = <<>> \/ cs = <<>> THEN None
    ELSE QuantOfSamples(Unknowns(rm[1]), cs)

\* a custom quantification that skips the curves disabled in the main list
compute_custom_quant_enabled(samples_df, curves_list) ==
    IF samples_df = <<>> \/ curves_list = <<>> THEN <<>>
    ELSE QuantRows(samples_df, EnabledCurves(curves_list))

\* _compute_custom_quant: the frame it returns
compute_custom_quant(samples_df, curves_list) ==
    IF samples_df = <<>> \/ curves_list = <<>> THEN <<>>
    ELSE QuantRows(samples_df, curves_list)

\* compute_stats: None for an empty block, else the statistics of the block
\* (the three sd fields are variances, the squares of the code's values)
StdSqOf(v) == IF Len(v) < 2 THEN NaN ELSE SampleVar(v)

\* Series.std(ddof=1) squared, over the non-missing values
StdSq(s) == StdSqOf(DropNa(s))

Column(block, c) == [i \in 1..Len(block) |-> block[i][c]]

\* a flag that is "NO" only above the threshold
CondStrict(sd_sq, threshold_sq) ==
    IF notna(sd_sq) /\ Less(threshold_sq, sd_sq) THEN "NO" ELSE "OK"

\* "NO" when the sd is present and at least the threshold (given squared)
Cond(sd_sq, threshold_sq) == IF notna(sd_sq) /\ Leq(threshold_sq, sd_sq) THEN "NO" ELSE "OK"

StatsOf(n, m18, m2, mw, sd18, sd2, sdw) ==
    [n |-> n,
     d18Om |-> m18, d2Hm |-> m2,
     d18Osd |-> sd18, d2Hsd |-> sd2,
     H2Om |-> mw, H2Osd |-> sdw,
     COND_d18O |-> Cond(sd18, Norm(64, 10000)),
     COND_d2H  |-> Cond(sd2, Norm(64, 100))]

compute_stats(block) ==
    IF block = <<>> THEN None
    ELSE Some(StatsOf(Len(block),
                      nanmean(Column(block, "d18")), nanmean(Column(block, "d2H")),
                      nanmean(Column(block, "H2O")),
                      StdSq(Column(block, "d18")), StdSq(Column(block, "d2H")),
                      StdSq(Column(block, "H2O"))))

\* ---------------------------------------------------------------- messages
NoMsg == [names |-> {}, kind |-> "none", text |-> ""]

Warning(t) == [names |-> {}, kind |-> "warning", text |-> t]

\* an information box; names are the samples its text reports as failed
Info(t, failed) == [names |-> failed, kind |-> "info", text |-> t]

\* an error box; names are the column or standard names its text holds
Error(t, cols) == [names |-> cols, kind |-> "error", text |-> t]

\* the history of compute_quant_table is kept only where it is asked for
Off == [on |-> FALSE, first |-> None, last |-> None]

\* one call: the unknown rows and the curves it read, the quant_df it found and
\* the quant_df it left
Snapshot(rm, cs, out) ==
    [curves |-> cs, out |-> out,
     unknowns |-> IF rm = None THEN <<>> ELSE Unknowns(rm[1]), prior |-> quant_df]

\* the histories after a call: the first remembered call is chosen once
Records(m, snap) ==
    IF ~m.on THEN {m}
    ELSE IF m.first = None
    THEN {[on |-> TRUE, first |-> None, last |-> Some(snap)],
          [on |-> TRUE, first |-> Some(snap), last |-> Some(snap)]}
    ELSE {[on |-> TRUE, first |-> m.first, last |-> Some(snap)]}

\* the main window takes input only while no modal window is open
Idle == dialog = None /\ ~custom_window

\* ------------------------------------------------------------------ inputs
\* the rows a supplied raw_means sheet is made of: a standard with both
\* channels, a standard whose d2Hm is missing, an unknown sample, and an
\* unknown sample whose d18Om and d2Hm are both missing
RowNivolet ==
    [d18Om |-> Num(-20), d2Hm |-> Num(-160), Identifier1 |-> <<" ", "nivolet", ".">>,
     d18Osd |-> NaN, d2Hsd |-> NaN]

RowOrmea ==
    [d18Om |-> Num(-10), d2Hm |-> NaN, Identifier1 |-> <<"Ormea">>,
     d18Osd |-> NaN, d2Hsd |-> NaN]

RowS1 ==
    [d18Om |-> Num(-5), d2Hm |-> Num(-30), Identifier1 |-> <<"S1">>,
     d18Osd |-> Norm(1, 20), d2Hsd |-> NaN]

RowS2 ==
    [d18Om |-> NaN, d2Hm |-> NaN, Identifier1 |-> <<"S2">>,
     d18Osd |-> Norm(1, 10), d2Hsd |-> Norm(1, 2)]

RowPool == {RowNivolet, RowOrmea, RowS1, RowS2}

\* a sheet of the rows f, listed with the latest Analysis first
Sheet(f) ==
    [i \in 1..Len(f) |->
        [Analysis    |-> Len(f) + 1 - i,
         d18Om |-> f[i].d18Om, d2Hm |-> f[i].d2Hm,
         Identifier1 |-> f[i].Identifier1,
         d18Osd |-> f[i].d18Osd, d2Hsd |-> f[i].d2Hsd]]

\* a longer sheet: in Analysis order NIVOLET, ORMEA, NIVOLET, S1, S2, that is
\* two blocks (a two-standard one and a trailing one) and two unknown rows
LongSheet == <<RowS2, RowS1, RowNivolet, RowOrmea, RowNivolet>>

\* the supplied sheets: every sheet of at most MaxRows pool rows, and LongSheet
Sheets == UNION {[1..n -> RowPool] : n \in 0..MaxRows} \cup {LongSheet}

\* more standard rows: a standard with the raw d18Om of NIVOLET and no d2Hm, a
\* standard with no d18Om, and a standard with both channels missing
RowSsw ==
    [d18Om |-> Num(-20), d2Hm |-> NaN, Identifier1 |-> <<"SSW">>,
     d18Osd |-> NaN, d2Hsd |-> NaN]

RowH2opi ==
    [d18Om |-> NaN, d2Hm |-> Num(-40), Identifier1 |-> <<"H2OPI", " ">>,
     d18Osd |-> NaN, d2Hsd |-> NaN]

RowBlank ==
    [d18Om |-> NaN, d2Hm |-> NaN, Identifier1 |-> <<"H2OPI", ".">>,
     d18Osd |-> NaN, d2Hsd |-> NaN]

\* an unknown sample with d18Om only, and with an SD for d2H only
RowS3 ==
    [d18Om |-> Num(-8), d2Hm |-> NaN, Identifier1 |-> <<"S3">>,
     d18Osd |-> NaN, d2Hsd |-> Norm(1, 2)]

\* a second measurement of ORMEA, with both channels
RowOrmea2 ==
    [d18Om |-> Num(-12), d2Hm |-> Num(-80), Identifier1 |-> <<"ormea", " ">>,
     d18Osd |-> NaN, d2Hsd |-> NaN]

StdRowPool == {RowNivolet, RowOrmea, RowSsw, RowH2opi, RowBlank, RowS1}

\* longer sheets of standards: two blocks of two standards, two standards
\* before an unknown row, a pattern with a blank standard row inside, and a
\* pattern of two names followed by a block that holds ORMEA twice
LongStdSheets ==
    { <<RowNivolet, RowOrmea, RowNivolet>>,
      <<RowS1, RowSsw, RowOrmea>>,
      <<RowH2opi, RowBlank, RowNivolet>>,
      <<RowOrmea, RowOrmea2, RowOrmea, RowNivolet>> }

\* the sheets for the calibration curves: every sheet of at most MaxStdRows
\* rows of the standards pool, and the longer ones
StdSheets == UNION {[1..n -> StdRowPool] : n \in 0..MaxStdRows} \cup LongStdSheets

\* the sets of required columns a supplied sheet may lack
RmMissingSets == {{"d18Om"}, {"Analysis", "Identifier 1"}}

Xlsx(cols, rows) == [rows |-> rows, kind |-> "xlsx", cols |-> cols]

Csv(cols, rows) == [rows |-> rows, kind |-> "csv", cols |-> cols]

\* ------------------------------------------------------------------- Init
InitApp ==
    /\ rm_df = None
    /\ curves = <<>>
    /\ curves_summary = None
    /\ quant_df = None
    /\ custom_quant_df = None
    /\ std_targets = STD_DEFAULTS
    /\ dialog = None
    /\ custom_window = FALSE
    /\ msg = NoMsg
    /\ file = None
    /\ df = None
    /\ sample_items = <<>>
    /\ current_analysis = None
    /\ analysis_vars = <<>>
    /\ only_stable = TRUE
    /\ sample_selections = <<>>
    /\ raw_means = <<>>
    /\ call = None

Init == InitApp /\ memo = Off

\* the same start, with the history of compute_quant_table switched on
InitDet == InitApp /\ memo = [on |-> TRUE, first |-> None, last |-> None]

\* ---------------------------------------------------------------- handlers
\* load_excel_raw_means on a sheet that lacks the columns `missing`
LoadExcelRawMeansMissing(missing) ==
    /\ Idle
    /\ missing # {}
    /\ file' = Some(Xlsx(RmNeeded \ missing, <<>>))
    /\ msg' = Error("Nel foglio 'raw_means' mancano", missing)
    /\ UNCHANGED <<rm_df, curves, curves_summary, quant_df, custom_quant_df, std_targets,
                   dialog, custom_window, csv_side, call, memo>>

LoadQuantified(new_rm, det, quant) ==
    /\ rm_df' = Some(new_rm)
    /\ curves' = det[1]
    /\ curves_summary' = det[2]
    /\ quant_df' = quant
    /\ memo' \in Records(memo, Snapshot(Some(new_rm), det[1], quant))
    /\ msg' = NoMsg
    /\ UNCHANGED <<custom_quant_df, std_targets, dialog, custom_window, csv_side, call>>

LoadDetected(new_rm, det) ==
    LoadQuantified(new_rm, det, compute_quant_table(Some(new_rm), det[1]))

LoadPrepared(new_rm) ==
    LoadDetected(new_rm, detect_curves_from_blocks(new_rm, std_targets, curves_summary))

\* load_excel_raw_means on a sheet with every required column
LoadExcelRawMeansRows(rm) ==
    /\ Idle
    /\ file' = Some(Xlsx(RmNeeded, rm))
    /\ LoadPrepared(PrepareRawMeans(rm))

SetEnabled(cs, flags) == [k \in 1..Len(cs) |-> [cs[k] EXCEPT !.enabled = flags[k]]]

enable_all_curves ==
    /\ Idle
    /\ curves' = SetEnabled(curves, [k \in 1..Len(curves) |-> TRUE])
    /\ msg' = NoMsg
    /\ UNCHANGED <<rm_df, curves_summary, quant_df, custom_quant_df, std_targets,
                   dialog, custom_window, file, csv_side, call, memo>>

disable_all_curves ==
    /\ Idle
    /\ curves' = SetEnabled(curves, [k \in 1..Len(curves) |-> FALSE])
    /\ msg' = NoMsg
    /\ UNCHANGED <<rm_df, curves_summary, quant_df, custom_quant_df, std_targets,
                   dialog, custom_window, file, csv_side, call, memo>>

\* a double click on row number row_index of the curve list
toggle_curve_selection(row_index) ==
    /\ Idle
    /\ row_index \in 1..Len(curves)
    /\ curves' = [curves EXCEPT ![row_index].enabled = ~curves[row_index].enabled]
    /\ msg' = NoMsg
    /\ UNCHANGED <<rm_df, curves_summary, quant_df, custom_quant_df, std_targets,
                   dialog, custom_window, file, csv_side, call, memo>>

ApplyQuantified(quant) ==
    /\ quant_df' = quant
    /\ memo' \in Records(memo, Snapshot(rm_df, curves, quant))
    /\ msg' = NoMsg

\* an Apply Selection whose quantification ticks every curve again
apply_curve_selection_ticking ==
    /\ Idle
    /\ curves # <<>>
    /\ EnabledCurves(curves) # <<>>
    /\ curves' = SetEnabled(curves, [k \in 1..Len(curves) |-> TRUE])
    /\ ApplyQuantified(compute_quant_table(rm_df, curves))
    /\ UNCHANGED <<rm_df, curves_summary, custom_quant_df, std_targets,
                   dialog, custom_window, file, csv_side, call>>

\* Apply Selection
apply_curve_selection ==
    /\ Idle
    /\ IF curves = <<>>
       THEN /\ msg' = Warning("No curves available.")
            /\ UNCHANGED <<quant_df, memo>>
       ELSE IF EnabledCurves(curves) = <<>>
       THEN /\ msg' = Warning("Select at least one curve for quantification.")
            /\ UNCHANGED <<quant_df, memo>>
       ELSE ApplyQuantified(compute_quant_table(rm_df, curves))
    /\ UNCHANGED <<rm_df, curves, curves_summary, custom_quant_df, std_targets,
                   dialog, custom_window, file, csv_side, call>>

\* the rows of the "points" sheet of one curve
PointsOf(c) ==
    [k \in 1..Len(c.pts18_x) |->
        [Curve |-> c.id, Iso |-> "18O", x_raw |-> c.pts18_x[k], y_target |-> c.pts18_y[k]]]
    \o [k \in 1..Len(c.pts2_x) |->
        [Curve |-> c.id, Iso |-> "2H", x_raw |-> c.pts2_x[k], y_target |-> c.pts2_y[k]]]

RECURSIVE PointsRows(_)
PointsRows(cs) == IF cs = <<>> THEN <<>> ELSE PointsOf(Head(cs)) \o PointsRows(Tail(cs))

\* the workbook export_cal_excel writes: the sheets "curves" and "points", and
\* "quant" (None when it is left out)
Workbook(summary, cs, quant) ==
    [curves |-> summary[1],
     quant |-> IF quant # None /\ quant[1] # <<>> THEN quant ELSE None,
     points |-> PointsRows(cs)]

\* export_cal_excel: it reads the state and changes none of it
export_cal_excel ==
    /\ Idle
    /\ msg' = IF curves_summary = None \/ curves_summary[1] = <<>>
              THEN Warning("Nessuna curva da esportare") ELSE NoMsg
    /\ UNCHANGED <<rm_df, curves, curves_summary, quant_df, custom_quant_df, std_targets,
                   dialog, custom_window, file, csv_side, call, memo>>

\* -------------------------------------------- custom quantification window
open_custom_quant_window ==
    /\ Idle
    /\ IF rm_df = None \/ rm_df[1] = <<>>
       THEN /\ msg' = Warning("Carica prima un file Excel con 'raw_means'.")
            /\ UNCHANGED custom_window
       ELSE IF curves = <<>>
       THEN /\ msg' = Warning("Nessuna curva di calibrazione disponibile.")
            /\ UNCHANGED custom_window
       ELSE IF Unknowns(rm_df[1]) = <<>>
       THEN /\ msg' = Warning("Nessun campione da quantificare trovato.")
            /\ UNCHANGED custom_window
       ELSE /\ msg' = NoMsg
            /\ custom_window' = TRUE
    /\ UNCHANGED <<rm_df, curves, curves_summary, quant_df, custom_quant_df, std_targets,
                   dialog, file, csv_side, call, memo>>

\* Calcola, with the identifiers selected in the sample list and the ids of
\* the ticked curves
calculate_custom_quant(selected_samples, selected_curves) ==
    /\ custom_window
    /\ IF selected_curves = {}
       THEN /\ msg' = Warning("Seleziona almeno una curva.")
            /\ UNCHANGED custom_quant_df
       ELSE IF selected_samples = {}
       THEN /\ msg' = Warning("Seleziona almeno un campione.")
            /\ UNCHANGED custom_quant_df
       ELSE /\ msg' = NoMsg
            /\ custom_quant_df' =
                 Some(compute_custom_quant(
                     SelectSeq(Unknowns(rm_df[1]), LAMBDA r : r.Identifier1 \in selected_samples),
                     SelectSeq(curves, LAMBDA c : c.id \in selected_curves)))
    /\ UNCHANGED <<rm_df, curves, curves_summary, quant_df, std_targets,
                   dialog, custom_window, file, csv_side, call, memo>>

\* Chiudi
close_custom_quant_window ==
    /\ custom_window
    /\ custom_window' = FALSE
    /\ msg' = NoMsg
    /\ UNCHANGED <<rm_df, curves, curves_summary, quant_df, custom_quant_df, std_targets,
                   dialog, file, csv_side, call, memo>>

\* the identifiers listed in the window, and the ids of its curve boxes
SampleIdentifiers == IF rm_df = None THEN {} ELSE {r.Identifier1 : r \in Range(Unknowns(rm_df[1]))}

CurveIds == {c.id : c \in Range(curves)}

\* ---------------------------------------------------------- targets dialog
\* the entry texts the user types, and the entries they are typed into
EntryTexts == { <<"-", "2", "0", ",", "5">>, <<"a", "b", "c">> }

EditFields == { <<"NIVOLET", "O18">>, <<"ORMEA", "O18">> }

EntriesOf(targets) ==
    [nm \in DOMAIN targets |->
        [O18 |-> FormatFloat(targets[nm].O18), H2 |-> FormatFloat(targets[nm].H2)]]

open_targets_dialog ==
    /\ Idle
    /\ dialog' = Some(EntriesOf(std_targets))
    /\ msg' = NoMsg
    /\ UNCHANGED <<rm_df, curves, curves_summary, quant_df, custom_quant_df, std_targets,
                   custom_window, file, csv_side, call, memo>>

\* the user replaces the text of one entry
edit_entry(nm, ch, text) ==
    /\ dialog # None
    /\ dialog' = Some([dialog[1] EXCEPT ![nm][ch] = text])
    /\ msg' = NoMsg
    /\ UNCHANGED <<rm_df, curves, curves_summary, quant_df, custom_quant_df, std_targets,
                   custom_window, file, csv_side, call, memo>>

EntryValid(e) == notna(parse_num(e.O18)) /\ notna(parse_num(e.H2))

\* an Applica that rebuilds the registry from the valid entries only
ApplyEntriesRebuilt(names, entries, targets) ==
    [nm \in {n \in DOMAIN targets : EntryValid(entries[n])} |->
        [O18 |-> parse_num(entries[nm].O18), H2 |-> parse_num(entries[nm].H2)]]

\* the loop of on_apply over the entries `names`: the targets it leaves, every
\* entry before the first invalid one being applied
RECURSIVE ApplyEntries(_, _, _)
ApplyEntries(names, entries, targets) ==
    IF names = <<>> THEN targets
    ELSE IF ~EntryValid(entries[Head(names)]) THEN targets
    ELSE ApplyEntries(Tail(names), entries,
            [targets EXCEPT ![Head(names)] =
                [O18 |-> parse_num(entries[Head(names)].O18),
                 H2  |-> parse_num(entries[Head(names)].H2)]])

\* the names whose entries on_apply rejects
InvalidNames(entries) ==
    SelectSeq(SortedNames(DOMAIN entries), LAMBDA nm : ~EntryValid(entries[nm]))

ApplyRequantified(det, quant) ==
    /\ curves' = det[1]
    /\ curves_summary' = det[2]
    /\ quant_df' = quant
    /\ memo' \in Records(memo, Snapshot(rm_df, det[1], quant))

\* on_apply after its loop ran through: the recomputation
ApplyRecompute(det) == ApplyRequantified(det, compute_quant_table(rm_df, det[1]))

ApplyEnd(bad) ==
    IF bad # <<>>
    THEN /\ msg' = Error("Valori non validi per", {Head(bad)})
         /\ UNCHANGED <<curves, curves_summary, quant_df, dialog, memo>>
    ELSE /\ msg' = NoMsg
         /\ dialog' = None
         /\ IF rm_df # None /\ rm_df[1] # <<>>
            THEN ApplyRecompute(detect_curves_from_blocks(rm_df[1], std_targets', curves_summary))
            ELSE UNCHANGED <<curves, curves_summary, quant_df, memo>>

\* Applica
on_apply ==
    /\ dialog # None
    /\ std_targets' = ApplyEntries(SortedNames(DOMAIN dialog[1]), dialog[1], std_targets)
    /\ ApplyEnd(InvalidNames(dialog[1]))
    /\ UNCHANGED <<rm_df, custom_quant_df, custom_window, file, csv_side, call>>

\* Ripristina default
on_reset ==
    /\ dialog # None
    /\ std_targets' = STD_DEFAULTS
    /\ dialog' = Some([nm \in DOMAIN dialog[1] |->
                          [O18 |-> FormatFloat(STD_DEFAULTS[nm].O18),
                           H2  |-> FormatFloat(STD_DEFAULTS[nm].H2)]])
    /\ msg' = NoMsg
    /\ UNCHANGED <<rm_df, curves, curves_summary, quant_df, custom_quant_df,
                   custom_window, file, csv_side, call, memo>>

\* Annulla
on_cancel ==
    /\ dialog # None
    /\ dialog' = None
    /\ msg' = NoMsg
    /\ UNCHANGED <<rm_df, curves, curves_summary, quant_df, custom_quant_df, std_targets,
                   custom_window, file, csv_side, call, memo>>

\* ------------------------------------------------------------- CSV loading
\* the columns load_csv requires, and the keys of its sort
CsvNeeded ==
    {"Analysis", "Inj Nr", "Good", "Ignore", "d(18_16)Mean", "d(D_H)Mean", "H2O_Mean"}

CsvSortKeys == <<"Analysis", "Inj Nr">>

\* Good: 1 stays 1, everything else becomes 0; Ignore: 0 or missing is 0,
\* everything else 1; Identifier 1 is stripped
NormaliseRow(r) ==
    [Analysis |-> r.Analysis, Identifier1 |-> Strip(r.Identifier1),
     InjNr |-> r.InjNr,
     Good |-> IF r.Good = Num(1) THEN 1 ELSE 0,
     Ignore |-> IF isna(r.Ignore) \/ r.Ignore = Num(0) THEN 0 ELSE 1,
     d18 |-> r.d18, d2H |-> r.d2H, H2O |-> r.H2O]

\* df.sort_values(["Analysis","Inj Nr"]), as a stable insertion sort
RECURSIVE InsertByAnalysisInj(_, _)
InsertByAnalysisInj(r, s) ==
    IF s = <<>> THEN <<r>>
    ELSE IF r.Analysis < Head(s).Analysis
            \/ (r.Analysis = Head(s).Analysis /\ r.InjNr < Head(s).InjNr)
    THEN <<r>> \o s
    ELSE <<Head(s)>> \o InsertByAnalysisInj(r, Tail(s))

RECURSIVE SortByAnalysisInj(_)
SortByAnalysisInj(s) ==
    IF s = <<>> THEN <<>>
    ELSE InsertByAnalysisInj(s[Len(s)], SortByAnalysisInj(SubSeq(s, 1, Len(s) - 1)))

PrepareCsv(rows) == SortByAnalysisInj([i \in 1..Len(rows) |-> NormaliseRow(rows[i])])

\* the first missing key of the sort, which raises KeyError; <<>> when none
MissingSortKeys(cols) == SelectSeq(CsvSortKeys, LAMBDA k : k \notin cols)

\* the error load_csv reports for a file with the columns cols, None when it
\* reports none
CsvErrorOf(cols, bad_keys) ==
    IF bad_keys # <<>> THEN Some(Error("KeyError", {Head(bad_keys)}))
    ELSE IF CsvNeeded \ cols # {} THEN Some(Error("Mancano colonne nel CSV", CsvNeeded \ cols))
    ELSE None

CsvError(cols) == CsvErrorOf(cols, MissingSortKeys(cols))

MinOf(S) == CHOOSE x \in S : \A y \in S : x <= y

\* the analyses of a frame in the order of analysis_number
RECURSIVE SortedAnalyses(_)
SortedAnalyses(S) ==
    IF S = {} THEN <<>> ELSE <<MinOf(S)>> \o SortedAnalyses(S \ {MinOf(S)})

ItemOf(a, ident) == [display |-> <<ident, a>>, analysis |-> a, identifier |-> ident]

FirstIdentifier(g) == IF g[1].Identifier1 = <<>> THEN <<"(sconosciuto)">> ELSE g[1].Identifier1

\* the sample_items _build_sample_index makes
BuildItems(rows, has_identifier, order) ==
    [k \in 1..Len(order) |->
        IF has_identifier
        THEN ItemOf(order[k], FirstIdentifier(SelectSeq(rows, LAMBDA r : r.Analysis = order[k])))
        ELSE [display |-> order[k], analysis |-> order[k], identifier |-> order[k]]]

build_sample_items(rows, has_identifier) ==
    BuildItems(rows, has_identifier, SortedAnalyses({rows[i].Analysis : i \in 1..Len(rows)}))

\* sorted(selected numbers)
RECURSIVE InsertNat(_, _)
InsertNat(n, s) ==
    IF s = <<>> THEN <<n>>
    ELSE IF n < Head(s) THEN <<n>> \o s ELSE <<Head(s)>> \o InsertNat(n, Tail(s))

RECURSIVE SortNat(_)
SortNat(s) == IF s = <<>> THEN <<>> ELSE InsertNat(Head(s), SortNat(Tail(s)))

Ticked(avars) == SelectSeq(avars, LAMBDA v : v.var)

selected_injections(avars) == SortNat([k \in 1..Len(Ticked(avars)) |-> Ticked(avars)[k].inj])

\* a save that keeps the entry of a sample whose selection is empty
SaveSelectionAlways(sel, a, selected) ==
    [x \in DOMAIN sel \cup {a} |-> IF x = a THEN selected ELSE sel[x]]

SaveSelection(sel, a, selected) ==
    IF selected # <<>>
    THEN [x \in DOMAIN sel \cup {a} |-> IF x = a THEN selected ELSE sel[x]]
    ELSE [x \in DOMAIN sel \ {a} |-> sel[x]]

\* _auto_save_current_selection: the new sample_selections
auto_save_current_selection(sel, cur, avars) ==
    IF cur = None THEN sel ELSE SaveSelection(sel, cur[1], selected_injections(avars))

Stable(r) == r.Good = 1 /\ r.Ignore = 0

LastOf(s, n) == IF Len(s) >= n THEN SubSeq(s, Len(s) - n + 1, Len(s)) ELSE s

\* a pick of the last three rows of analysis a, whatever their quality
LastListed(rows, a) ==
    {r.InjNr : r \in Range(LastOf(SelectSeq(rows, LAMBDA r : r.Analysis = a), 3))}

\* the Inj Nr set select_last3 picks for analysis a
Last3(rows, a) ==
    {r.InjNr : r \in Range(LastOf(SelectSeq(rows, LAMBDA r : r.Analysis = a /\ Stable(r)), 3))}

\* the check boxes of the rows g, ticked by the saved selection when there is
\* one and by select_last3(auto_only=True) else
TickBy(g, picked) == [k \in 1..Len(g) |-> [var |-> g[k].InjNr \in picked, inj |-> g[k].InjNr]]

ListOf(rows, a, stable, sel) ==
    TickBy(SelectSeq(rows, LAMBDA r : r.Analysis = a /\ (stable => Stable(r))),
           IF a \in DOMAIN sel THEN Range(sel[a]) ELSE Last3(rows, a))

\* refresh_injection_list: the new analysis_vars
refresh_injection_list(frame, cur, stable, sel) ==
    IF frame = None \/ cur = None THEN <<>> ELSE ListOf(frame[1], cur[1], stable, sel)

\* load_csv on a file that lacks some required column
LoadCsvMissing(cols) ==
    /\ Idle
    /\ CsvError(cols) # None
    /\ file' = Some(Csv(cols, <<>>))
    /\ msg' = CsvError(cols)[1]
    /\ UNCHANGED <<rm_df, curves, curves_summary, quant_df, custom_quant_df, std_targets,
                   dialog, custom_window, csv_side, call, memo>>

\* the state after _build_sample_index and refresh_injection_list; the new
\* frame has no raw_means columns
LoadCsvIndexed(rows, items, cur, sel) ==
    /\ df' = Some(rows)
    /\ sample_items' = items
    /\ current_analysis' = cur
    /\ sample_selections' = sel
    /\ raw_means' = <<>>
    /\ analysis_vars' = refresh_injection_list(Some(rows), cur, only_stable, sel)

\* an empty frame leaves the index empty and the current sample as it was
LoadCsvItems(rows, items) ==
    IF items = <<>>
    THEN LoadCsvIndexed(rows, items, current_analysis, sample_selections)
    ELSE LoadCsvIndexed(rows, items, Some(items[1].analysis),
             auto_save_current_selection(sample_selections, current_analysis, analysis_vars))

\* load_csv on a file with every required column
LoadCsvRows(cols, rows) ==
    /\ Idle
    /\ CsvError(cols) = None
    /\ file' = Some(Csv(cols, rows))
    /\ LoadCsvItems(PrepareCsv(rows), build_sample_items(PrepareCsv(rows), "Identifier 1" \in cols))
    /\ msg' = NoMsg
    /\ UNCHANGED <<rm_df, curves, curves_summary, quant_df, custom_quant_df, std_targets,
                   dialog, custom_window, only_stable, call, memo>>

\* the rows of the supplied CSV files
Injection(a, n, good, ignore, v18, ident) ==
    [Analysis |-> a, Identifier1 |-> ident, InjNr |-> n, Good |-> good, Ignore |-> ignore,
     d18 |-> v18, d2H |-> Mul(Num(8), v18), H2O |-> Num(20000)]

\* one sample of four injections, the first one not good, listed out of order
CsvOne ==
    << Injection(1, 3, Num(1), Num(0), Num(-5), <<"S1", " ">>),
       Injection(1, 1, Num(0), Num(0), Num(-9), <<"S1", " ">>),
       Injection(1, 2, Num(1), NaN, Norm(-51, 10), <<"S1", " ">>),
       Injection(1, 4, Num(1), Num(0), Norm(-49, 10), <<"S1", " ">>) >>

\* two samples: one with a single ignored injection, one with two good ones
CsvTwo ==
    << Injection(2, 1, Num(1), Num(0), Num(-7), <<"S2">>),
       Injection(2, 2, Num(1), Num(0), Num(-7), <<"S2">>),
       Injection(1, 1, Num(2), Num(1), Num(-3), <<>>) >>

\* one sample whose d18O values 0, 0.08, 0.16 have an SD of exactly 0.08 (and
\* the d2H values an SD of 0.64), and a fourth injection without values
CsvEdge ==
    << Injection(1, 1, Num(1), Num(0), Num(0), <<"S1">>),
       Injection(1, 2, Num(1), Num(0), Norm(2, 25), <<"S1">>),
       Injection(1, 3, Num(1), Num(0), Norm(4, 25), <<"S1">>),
       Injection(1, 4, Num(1), Num(0), NaN, <<"S1">>) >>

CsvFiles ==
    { Csv(CsvNeeded \cup {"Identifier 1"}, CsvOne),
      Csv(CsvNeeded \cup {"Identifier 1"}, CsvTwo),
      Csv(CsvNeeded, [i \in 1..Len(CsvTwo) |-> [CsvTwo[i] EXCEPT !.Identifier1 = <<>>]]),
      Csv(CsvNeeded \cup {"Identifier 1"}, <<>>) }

\* the column sets of the CSV files that lack a required column
CsvMissingSets == { {"Good"}, {"Analysis", "Good"}, {"Inj Nr", "H2O_Mean"}, {"Analysis", "Inj Nr"} }

\* ---------------------------------------------------------- function calls
\* the longest sequence of standard names given to the pattern scan
MaxNames == 7

NameSeqs == UNION {[1..n -> STD_NAMES] : n \in 0..MaxNames}

\* enriched frames that keep every row, a row with both channels missing too
FnFrames ==
    {Enrich(Sheet(f)) : f \in UNION {[1..n -> RowPool \cup {RowS3}] : n \in 0..MaxRows}}

\* the curves of LongSheet under the default targets, and the lists made of them
FnCurves == detect_curves_from_blocks(PrepareRawMeans(Sheet(LongSheet)), STD_DEFAULTS, None)[1]

FnSubLists == {<<>>, <<FnCurves[1]>>, <<FnCurves[2]>>, FnCurves}

FnCurveLists ==
    UNION {{SetEnabled(cs, flags) : flags \in [1..Len(cs) -> BOOLEAN]} : cs \in FnSubLists}

FnBlocks ==
    {SelectSeq(PrepareCsv(CsvOne), LAMBDA r : r.InjNr \in S) : S \in SUBSET (1..4)}
        \cup {SelectSeq(PrepareCsv(CsvEdge), LAMBDA r : r.InjNr \in S) : S \in SUBSET (1..4)}

Called(fn, args, result) == [fn |-> fn, args |-> args, result |-> result]

CallFrame ==
    UNCHANGED <<rm_df, curves, curves_summary, quant_df, custom_quant_df, std_targets,
                dialog, custom_window, msg, file, csv_side, memo>>

\* each function is called once, on one of its inputs
call_pattern_length ==
    /\ call = None
    /\ \E std_sequence \in NameSeqs :
          call' = Some(Called("pattern_length", <<std_sequence>>, pattern_length(std_sequence)))
    /\ CallFrame

call_compute_quant_table ==
    /\ call = None
    /\ \E rm \in {None} \cup {Some(fr) : fr \in FnFrames} : \E cs \in FnCurveLists :
          call' = Some(Called("compute_quant_table", <<rm, cs>>, compute_quant_table(rm, cs)))
    /\ CallFrame

call_compute_custom_quant ==
    /\ call = None
    /\ \E fr \in FnFrames : \E curves_list \in FnCurveLists :
          call' = Some(Called("_compute_custom_quant", <<Unknowns(fr), curves_list>>,
                              compute_custom_quant(Unknowns(fr), curves_list)))
    /\ CallFrame

call_compute_stats ==
    /\ call = None
    /\ \E block \in FnBlocks :
          call' = Some(Called("compute_stats", <<block>>, compute_stats(block)))
    /\ CallFrame

\* the standard rows of a table whose standards are named s, in order
NamedRows(s) == [i \in 1..Len(s) |-> [Analysis_num |-> i, STD_NAME |-> s[i]]]

\* the blocks detect_curves_from_blocks makes of a non-empty standard sequence
call_blocks ==
    /\ call = None
    /\ \E s \in NameSeqs \ {<<>>} :
          call' = Some(Called("blocks", <<NamedRows(s)>>, BlocksOf(NamedRows(s))))
    /\ CallFrame

\* the raw values and the targets of the points given to the channel fit
FnRaw == {Num(-20), Num(-10)}

FnTarget == {Norm(-2247, 100), Norm(-1152, 100), Num(0)}

\* the fit of one channel of a curve, on point lists of every length
call_channel_fit ==
    /\ call = None
    /\ \E n \in 0..MaxPoints : \E x \in [1..n -> FnRaw] : \E y \in [1..n -> FnTarget] :
          call' = Some(Called("channel_fit", <<x, y>>, ChannelFit(x, y)))
    /\ CallFrame

\* the floats nearest to raw values -1/4, -2/4, ... and to the default targets
FloatRaws == {Float(Norm(-k, 4)) : k \in 1..MaxQuarter}

FloatTargets ==
    {Float(STD_DEFAULTS[n].O18) : n \in STD_NAMES} \cup {Float(STD_DEFAULTS[n].H2) : n \in STD_NAMES}

OnePointResult(x, fit) == <<fit[1], fit[2], fit[3], FloatReconciled(fit[1], fit[2], x)>>

\* the coefficients of a channel with the one point (x, y), and the value the
\* curve gives for the raw value x
call_one_point ==
    /\ call = None
    /\ \E x \in FloatRaws : \E y \in FloatTargets :
          call' = Some(Called("one_point", <<x, y>>, OnePointResult(x, FloatOnePoint(x, y))))
    /\ CallFrame

\* the raw values and the targets of the fits in floating point
FloatFitRaws == {Num(-20), Num(-10), Num(-5)}

FloatFitTargets == {Float(STD_DEFAULTS["NIVOLET"].O18), Float(STD_DEFAULTS["ORMEA"].O18), Num(5)}

\* fit_linear_with_r2 in floating point, on lists of 2 and of 3 points
call_float_fit ==
    /\ call = None
    /\ \E n \in 2..MaxPoints : \E x \in [1..n -> FloatFitRaws] : \E y \in [1..n -> FloatFitTargets] :
          \E ab \in FloatLstsq(x, y) :
              call' = Some(Called("float_fit", <<x, y>>, FloatFitOf(x, y, ab)))
    /\ CallFrame

\* ---------------------------------------------------------- specifications
\* the calibration tab: loading, curve selection, quantification, export
Next ==
    \/ \E missing \in RmMissingSets : LoadExcelRawMeansMissing(missing)
    \/ \E f \in Sheets : LoadExcelRawMeansRows(Sheet(f))
    \/ enable_all_curves
    \/ disable_all_curves
    \/ \E k \in 1..Len(curves) : toggle_curve_selection(k)
    \/ apply_curve_selection
    \/ export_cal_excel

Spec == Init /\ [][Next]_vars

\* the sheets loaded while the history is kept: one without standards, one
\* with one curve, one with two curves, each with the unknown row S1
DetSheets == {<<RowS1>>, <<RowS1, RowNivolet>>, LongSheet}

\* the calibration tab with the history of compute_quant_table
NextDet ==
    \/ \E missing \in RmMissingSets : LoadExcelRawMeansMissing(missing)
    \/ \E f \in DetSheets : LoadExcelRawMeansRows(Sheet(f))
    \/ enable_all_curves
    \/ disable_all_curves
    \/ \E k \in 1..Len(curves) : toggle_curve_selection(k)
    \/ apply_curve_selection
    \/ export_cal_excel

SpecDet == InitDet /\ [][NextDet]_vars

\* the calibration tab and the targets dialog
NextTargets ==
    \/ Next
    \/ open_targets_dialog
    \/ \E fld \in EditFields : \E text \in EntryTexts : edit_entry(fld[1], fld[2], text)
    \/ on_apply
    \/ on_reset
    \/ on_cancel

SpecTargets == Init /\ [][NextTargets]_vars

\* the calibration tab and the custom quantification window
NextCustom ==
    \/ Next
    \/ open_custom_quant_window
    \/ \E ss \in SUBSET SampleIdentifiers : \E sc \in SUBSET CurveIds :
          calculate_custom_quant(ss, sc)
    \/ close_custom_quant_window

SpecCustom == Init /\ [][NextCustom]_vars

\* the two loaders
NextLoad ==
    \/ \E missing \in RmMissingSets : LoadExcelRawMeansMissing(missing)
    \/ \E f \in Sheets : LoadExcelRawMeansRows(Sheet(f))
    \/ \E missing \in CsvMissingSets : LoadCsvMissing((CsvNeeded \cup {"Identifier 1"}) \ missing)
    \/ \E f \in CsvFiles : LoadCsvRows(f.cols, f.rows)

SpecLoad == Init /\ [][NextLoad]_vars

\* one call of the pattern scan
NextPattern == call_pattern_length

SpecPattern == Init /\ [][NextPattern]_vars

\* one call of one of the quantification or statistics functions
NextFn ==
    \/ call_compute_quant_table
    \/ call_compute_custom_quant
    \/ call_compute_stats

SpecFn == Init /\ [][NextFn]_vars

\* one grouping of a standard sequence into blocks
NextBlocks == call_blocks

SpecBlocks == Init /\ [][NextBlocks]_vars

\* the calibration tab on sheets of standards with missing channels
NextCurves ==
    \/ \E f \in StdSheets : LoadExcelRawMeansRows(Sheet(f))
    \/ enable_all_curves
    \/ disable_all_curves
    \/ \E k \in 1..Len(curves) : toggle_curve_selection(k)
    \/ apply_curve_selection

SpecCurves == Init /\ [][NextCurves]_vars

\* one fit of one channel
NextFit == call_channel_fit

SpecFit == Init /\ [][NextFit]_vars

\* one fit of a channel with one point, in floating point
NextFloat == call_one_point

SpecFloat == Init /\ [][NextFloat]_vars

\* one fit of a channel with two or more points, in floating point
NextFloatFit == call_float_fit

SpecFloatFit == Init /\ [][NextFloatFit]_vars

\* ------------------------------------------------- selection of injections
SetTicks(avars, picked) == [k \in 1..Len(avars) |-> [var |-> picked[k], inj |-> avars[k].inj]]

\* the frame of the unchanged calibration side
CsvFrame ==
    UNCHANGED <<rm_df, curves, curves_summary, quant_df, custom_quant_df, std_targets,
                dialog, custom_window, file, call, memo>>

\* the check boxes changed to new_vars: recompute_plots, then
\* _auto_save_current_selection
TicksChanged(new_vars) ==
    /\ analysis_vars' = new_vars
    /\ sample_selections' =
           auto_save_current_selection(sample_selections, current_analysis, new_vars)
    /\ msg' = NoMsg
    /\ UNCHANGED <<df, sample_items, current_analysis, only_stable, raw_means>>
    /\ CsvFrame

\* a click on check box number i of the injection list
on_injection_change(i) ==
    /\ Idle
    /\ i \in 1..Len(analysis_vars)
    /\ TicksChanged([analysis_vars EXCEPT ![i].var = ~analysis_vars[i].var])

\* Select All
select_all ==
    /\ Idle
    /\ TicksChanged(SetTicks(analysis_vars, [k \in 1..Len(analysis_vars) |-> TRUE]))

\* None
select_none ==
    /\ Idle
    /\ TicksChanged(SetTicks(analysis_vars, [k \in 1..Len(analysis_vars) |-> FALSE]))

\* Last 3 Stable: the button calls select_last3(auto_only=False)
select_last3 ==
    /\ Idle
    /\ IF df = None \/ current_analysis = None
       THEN /\ msg' = NoMsg
            /\ UNCHANGED csv_side
            /\ CsvFrame
       ELSE TicksChanged(SetTicks(analysis_vars,
                [k \in 1..Len(analysis_vars) |->
                    analysis_vars[k].inj \in Last3(df[1], current_analysis[1])]))

\* the state after _on_sample_change saved the selection and took the sample
SampleChanged(cur, sel) ==
    /\ current_analysis' = cur
    /\ sample_selections' = sel
    /\ analysis_vars' = refresh_injection_list(df, cur, only_stable, sel)

\* a sample is chosen in the combo box: _on_sample_change, then
\* refresh_injection_list
on_sample_change(k) ==
    /\ Idle
    /\ k \in 1..Len(sample_items)
    /\ SampleChanged(Some(sample_items[k].analysis),
                     auto_save_current_selection(sample_selections, current_analysis,
                                                 analysis_vars))
    /\ msg' = NoMsg
    /\ UNCHANGED <<df, sample_items, only_stable, raw_means>>
    /\ CsvFrame

\* the check box "only stable": refresh_injection_list with the new filter
toggle_only_stable ==
    /\ Idle
    /\ only_stable' = ~only_stable
    /\ analysis_vars' =
           refresh_injection_list(df, current_analysis, ~only_stable, sample_selections)
    /\ msg' = NoMsg
    /\ UNCHANGED <<df, sample_items, current_analysis, sample_selections, raw_means>>
    /\ CsvFrame

\* the injections of analysis a that a saved selection names
SelectedBlock(rows, a, injections) ==
    SelectSeq(rows, LAMBDA r : r.Analysis = a /\ r.InjNr \in Range(injections))

\* the analyses of the saved selections whose block is not empty, and the others
Processed(rows, sel) == {a \in DOMAIN sel : sel[a] # <<>> /\ SelectedBlock(rows, a, sel[a]) # <<>>}

Failed(rows, sel) == {a \in DOMAIN sel : sel[a] # <<>> /\ SelectedBlock(rows, a, sel[a]) = <<>>}

\* the raw_means columns after the loop of apply_all_to_raw_means
WriteRawMeans(old, rows, sel) ==
    [a \in DOMAIN old \cup Processed(rows, sel) |->
        IF a \in Processed(rows, sel)
        THEN compute_stats(SelectedBlock(rows, a, sel[a]))[1]
        ELSE old[a]]

ApplyAllSaved(sel) ==
    /\ sample_selections' = sel
    /\ IF DOMAIN sel = {}
       THEN /\ msg' = Warning("Nessuna selezione di iniezioni salvata.")
            /\ UNCHANGED raw_means
       ELSE /\ raw_means' = WriteRawMeans(raw_means, df[1], sel)
            /\ msg' = IF Processed(df[1], sel) # {}
                      THEN Info("Raw means scritti", Failed(df[1], sel))
                      ELSE Error("Nessun campione processato. Verifica le selezioni.", {})

\* Applica tutte le selezioni
apply_all_to_raw_means ==
    /\ Idle
    /\ IF df = None
       THEN /\ msg' = Warning("Carica prima un CSV.")
            /\ UNCHANGED <<sample_selections, raw_means>>
       ELSE ApplyAllSaved(auto_save_current_selection(sample_selections, current_analysis,
                                                      analysis_vars))
    /\ UNCHANGED <<df, sample_items, current_analysis, analysis_vars, only_stable>>
    /\ CsvFrame

\* one sample of five injections, the third one ignored
CsvFive ==
    << Injection(1, 1, Num(1), Num(0), Num(-5), <<"S5">>),
       Injection(1, 2, Num(1), Num(0), Norm(-51, 10), <<"S5">>),
       Injection(1, 3, Num(1), Num(1), Num(-9), <<"S5">>),
       Injection(1, 4, Num(1), Num(0), Norm(-49, 10), <<"S5">>),
       Injection(1, 5, Num(1), Num(0), Num(-5), <<"S5">>) >>

SelectFiles == CsvFiles \cup {Csv(CsvNeeded \cup {"Identifier 1"}, CsvFive)}

\* the injection tab: loading a CSV file, choosing a sample, ticking
\* injections, and writing the raw means
NextSelect ==
    \/ \E f \in SelectFiles : LoadCsvRows(f.cols, f.rows)
    \/ \E k \in 1..Len(sample_items) : on_sample_change(k)
    \/ toggle_only_stable
    \/ \E i \in 1..Len(analysis_vars) : on_injection_change(i)
    \/ select_all
    \/ select_none
    \/ select_last3
    \/ apply_all_to_raw_means

SpecSelect == Init /\ [][NextSelect]_vars
\* ------------------------------------------------------------------ claims
\* C1: whenever the main window is ready for the next action, the
\* quantification table a reader or export_cal_excel sees is the
\* quantification of the current unknown rows through the currently enabled
\* curves.  Refuted: a toggle changes the enabled subset and leaves the table.
C1_TableMatchesEnabledCurves ==
    Idle => quant_df = compute_quant_table(rm_df, curves)

\* the curves without their enabled flags
Calibration(cs) == [k \in 1..Len(cs) |-> [cs[k] EXCEPT !.enabled = TRUE]]

\* C2: with the targets dialog closed and a raw_means table loaded, the
\* target values and coefficients of every curve are the ones derived from the
\* current std_targets.  Refuted: Ripristina default (and an Applica stopped by
\* an invalid entry) changes std_targets without recomputing.
C2_CurvesFollowTargets ==
    (Idle /\ rm_df # None /\ rm_df[1] # <<>>)
        => Calibration(curves)
             = detect_curves_from_blocks(rm_df[1], std_targets, curves_summary)[1]

\* C3: a step that closes the targets dialog leaves the enabled flag of every
\* curve as it was.  Refuted: Applica rebuilds every curve enabled.
C3_EditKeepsEnabledFlags ==
    [][(dialog # None /\ dialog' = None)
          => /\ Len(curves') = Len(curves)
             /\ \A k \in 1..Len(curves) : curves'[k].enabled = curves[k].enabled]_vars

\* C4: when Apply Selection answers that no curve is selected, no table of
\* rows is kept as the quantification result.  Refuted: the previous table stays.
C4_EmptySelectionKeepsNoRows ==
    (msg = Warning("Select at least one curve for quantification."))
        => (quant_df = None \/ quant_df[1] = <<>>)

\* a frame of standards only: a quantification of it succeeds with zero rows
OnlyStandards == PrepareRawMeans(Sheet(<<RowNivolet, RowOrmea>>))

\* C5: the result of a call without curves (or without replicates) differs
\* from the result of a successful call with zero unknown rows.  Refuted:
\* _compute_custom_quant returns the same empty frame in both cases.
C5_NothingToComputeIsDistinct ==
    call # None =>
        /\ (call[1].fn = "compute_quant_table" /\ call[1].args[2] = <<>>)
              => call[1].result # compute_quant_table(Some(OnlyStandards), FnCurves)
        /\ (call[1].fn = "_compute_custom_quant" /\ call[1].args[2] = <<>>
              /\ call[1].args[1] # <<>>)
              => call[1].result # compute_custom_quant(<<>>, FnCurves)
        /\ (call[1].fn = "compute_stats" /\ call[1].args[1] = <<>>)
              => call[1].result = None

AllMissing(s) == \A k \in 1..Len(s) : isna(s[k])

\* q is the row of r, with every reconciled value, mean and error missing
MissingRowOf(q, r) ==
    /\ q.Analysis = r.Analysis
    /\ AllMissing(q.d18O_ric) /\ AllMissing(q.d2H_ric)
    /\ isna(q.d18Omean) /\ isna(q.d2Hmean)
    /\ isna(q.ERR_d18O) /\ isna(q.ERR_d2H)

BothMissingUnknown(r) ==
    /\ isna(r.d18Om) /\ isna(r.d2Hm)
    /\ norm_std_name(Strip(r.Identifier1)) \notin STD_NAMES

\* C6: once a table is quantified, every unknown row of the supplied sheet
\* whose d18Om and d2Hm are both missing has a row in the quantification table,
\* with missing values.  Refuted: the load drops such rows.
C6_MissingRowIsKept ==
    (file # None /\ file[1].kind = "xlsx" /\ file[1].cols = RmNeeded /\ quant_df # None)
        => \A k \in 1..Len(file[1].rows) :
              BothMissingUnknown(file[1].rows[k])
                 => \E j \in 1..Len(quant_df[1]) : MissingRowOf(quant_df[1][j], file[1].rows[k])

C8_QuantificationLeavesInputs ==
    [][(apply_curve_selection
          \/ \E ss \in SUBSET SampleIdentifiers : \E sc \in SUBSET CurveIds :
                calculate_custom_quant(ss, sc))
          => UNCHANGED <<std_targets, curves>>]_vars

\* both quantifications have run with a curve disabled: the main table has
\* one column less than there are curves, the custom table has rows
C8_Witness ==
    /\ custom_window
    /\ custom_quant_df # None /\ custom_quant_df[1] # <<>>
    /\ quant_df # None /\ quant_df[1] # <<>>
    /\ Len(quant_df[1][1].d18O_ric) = Len(EnabledCurves(curves))
    /\ Len(EnabledCurves(curves)) < Len(curves)

\* the required columns a supplied file lacks
MissingOf(f) == (IF f.kind = "xlsx" THEN RmNeeded ELSE CsvNeeded) \ f.cols

\* C9: a load of a file that lacks required columns shows an error naming
\* the missing columns and leaves the loaded tables, the curves, the summary
\* and the quantification table as they were.  Refuted: load_csv sorts before
\* it checks, and the error names the first missing sort key only.
C9_FailedLoadNamesMissing ==
    [][(file' # None /\ MissingOf(file'[1]) # {})
          => /\ msg'.kind = "error"
             /\ msg'.names = MissingOf(file'[1])
             /\ UNCHANGED <<rm_df, curves, curves_summary, quant_df, df>>]_vars

\* the length of the longest prefix of s without a repeated name
LongestRepeatFreePrefix(s) ==
    CHOOSE n \in 0..Len(s) :
        /\ Cardinality(Range(SubSeq(s, 1, n))) = n
        /\ \A m \in (n + 1)..Len(s) : Cardinality(Range(SubSeq(s, 1, m))) < m

\* C10: the pattern length of a sequence of standard names is the length
\* of its longest prefix without a repeated name.
C10_PatternLength ==
    (call # None /\ call[1].fn = "pattern_length")
        => call[1].result = LongestRepeatFreePrefix(call[1].args[1])

\* the sequence NIVOLET, ORMEA, H2OPI, NIVOLET, ORMEA, H2OPI, SSW has length 3
C10_Witness ==
    call = Some(Called("pattern_length",
                       << <<"NIVOLET", "ORMEA", "H2OPI", "NIVOLET", "ORMEA", "H2OPI", "SSW">> >>,
                       3))

\* C11: the blocks of the detector partition the standard sequence: joined in
\* order they give the sequence back, every block but the last has exactly L
\* rows (L the length of the longest repeat-free prefix of the names), and the
\* last block has between 1 and L rows, so a shorter trailing block is kept.
RECURSIVE Flatten(_)
Flatten(blocks) == IF blocks = <<>> THEN <<>> ELSE Head(blocks) \o Flatten(Tail(blocks))

PartitionBy(blocks, rows, L) ==
    /\ blocks # <<>>
    /\ Flatten(blocks) = rows
    /\ \A k \in 1..(Len(blocks) - 1) : Len(blocks[k]) = L
    /\ Len(blocks[Len(blocks)]) \in 1..L

NamesOf(rows) == [i \in 1..Len(rows) |-> rows[i].STD_NAME]

C11_BlocksPartition ==
    (call # None /\ call[1].fn = "blocks")
        => PartitionBy(call[1].result, call[1].args[1],
                       LongestRepeatFreePrefix(NamesOf(call[1].args[1])))

\* the seven standards of the example, in blocks of 3, 3 and 1 rows
C11_Witness ==
    /\ call # None
    /\ call[1].fn = "blocks"
    /\ NamesOf(call[1].args[1])
          = <<"NIVOLET", "ORMEA", "H2OPI", "NIVOLET", "ORMEA", "H2OPI", "SSW">>
    /\ [k \in 1..Len(call[1].result) |-> Len(call[1].result[k])] = <<3, 3, 1>>

\* C12: every curve of the curve list names at least one registry standard and
\* has at least one point in at least one channel.
C12_CurvesHaveAPoint ==
    \A k \in 1..Len(curves) :
        /\ curves[k].std_used # {}
        /\ curves[k].std_used \subseteq DOMAIN std_targets
        /\ (curves[k].pts18_x # <<>> \/ curves[k].pts2_x # <<>>)

BlankStandard(r) ==
    isna(r.d18Om) /\ isna(r.d2Hm) /\ norm_std_name(Strip(r.Identifier1)) \in STD_NAMES

\* a sheet with a standard row that has no value in either channel was
\* loaded, and a curve with points in one channel only was made of the rest
C12_Witness ==
    /\ file # None
    /\ file[1].kind = "xlsx"
    /\ \E i \in 1..Len(file[1].rows) : BlankStandard(file[1].rows[i])
    /\ \E k \in 1..Len(curves) : curves[k].pts18_x = <<>> /\ curves[k].pts2_x # <<>>

\* C13: for every unknown row and every curve used, the reconciled value of a
\* channel is a*raw + b with that curve's coefficients of that channel when
\* the raw value is present, and missing when the raw value is missing.
Reconciled(a, b, raw) == IF isna(raw) THEN NaN ELSE Add(Mul(a, raw), b)

ReconciledBy(out, samples, cs) ==
    /\ Len(out) = Len(samples)
    /\ \A j \in 1..Len(out) :
          /\ Len(out[j].d18O_ric) = Len(cs)
          /\ Len(out[j].d2H_ric) = Len(cs)
          /\ \A k \in 1..Len(cs) :
                /\ out[j].d18O_ric[k] = Reconciled(cs[k].a18, cs[k].b18, samples[j].d18Om)
                /\ out[j].d2H_ric[k] = Reconciled(cs[k].a2, cs[k].b2, samples[j].d2Hm)

\* the call is a quantification that produced rows
QuantCall == call # None /\ call[1].fn = "compute_quant_table" /\ call[1].result # None

CustomCall == call # None /\ call[1].fn = "_compute_custom_quant" /\ call[1].result # <<>>

C13_ReconciledValues ==
    /\ QuantCall => ReconciledBy(call[1].result[1], Unknowns(call[1].args[1][1]),
                                 EnabledCurves(call[1].args[2]))
    /\ CustomCall => ReconciledBy(call[1].result, call[1].args[1], call[1].args[2])

\* a table through two enabled curves with a row that has d18Om and no d2Hm:
\* two reconciled d18O values that differ, and a missing d2H value
C13_Witness ==
    /\ QuantCall
    /\ Len(EnabledCurves(call[1].args[2])) = 2
    /\ \E j \in 1..Len(call[1].result[1]) :
          /\ notna(call[1].result[1][j].d18O_ric[1])
          /\ notna(call[1].result[1][j].d18O_ric[2])
          /\ call[1].result[1][j].d18O_ric[1] # call[1].result[1][j].d18O_ric[2]
          /\ isna(call[1].result[1][j].d2H_ric[1])

\* C14: the cross-curve SD of a channel of a row is the sample standard
\* deviation (divisor n-1) of the row's non-missing reconciled values, and is
\* 0, not missing, when fewer than 2 of them are non-missing.  (Y and AA hold
\* the squares, so the statement is about the sample variance.)
SumOfSquares(v) == SumSeq([i \in 1..Len(v) |-> Mul(v[i], v[i])])

\* (n * sum(v^2) - sum(v)^2) / (n * (n - 1))
VarianceOf(v) ==
    Div(Sub(Mul(Num(Len(v)), SumOfSquares(v)), Mul(SumSeq(v), SumSeq(v))),
        Num(Len(v) * (Len(v) - 1)))

CrossCurveVar(ric) == IF Len(DropNa(ric)) < 2 THEN Num(0) ELSE VarianceOf(DropNa(ric))

C14_CrossCurveSd ==
    QuantCall =>
        \A j \in 1..Len(call[1].result[1]) :
            /\ call[1].result[1][j].Y = CrossCurveVar(call[1].result[1][j].d18O_ric)
            /\ call[1].result[1][j].AA = CrossCurveVar(call[1].result[1][j].d2H_ric)

\* a row with two different reconciled d18O values and no d2H value: a
\* positive SD for d18O and an SD of 0 for d2H
C14_Witness ==
    /\ QuantCall
    /\ \E j \in 1..Len(call[1].result[1]) :
          /\ Len(DropNa(call[1].result[1][j].d18O_ric)) = 2
          /\ Less(Num(0), call[1].result[1][j].Y)
          /\ Len(call[1].result[1][j].d2H_ric) = 2
          /\ DropNa(call[1].result[1][j].d2H_ric) = <<>>
          /\ call[1].result[1][j].AA = Num(0)

\* C15: the combined error of a channel is sqrt(J^2 + Y^2), J the intra-sample
\* SD of the row taken as 0 when missing and Y the cross-curve SD; with exactly
\* one enabled curve it is the row's intra-sample SD.  (ERR holds the square.)
IntraSd(sd) == IF isna(sd) THEN Num(0) ELSE sd

CombinedBy(out, samples, ncurves) ==
    \A j \in 1..Len(out) :
        /\ out[j].ERR_d18O = Add(Mul(IntraSd(samples[j].d18Osd), IntraSd(samples[j].d18Osd)),
                                 out[j].Y)
        /\ out[j].ERR_d2H = Add(Mul(IntraSd(samples[j].d2Hsd), IntraSd(samples[j].d2Hsd)),
                                out[j].AA)
        /\ ncurves = 1 =>
              /\ out[j].ERR_d18O = Mul(IntraSd(samples[j].d18Osd), IntraSd(samples[j].d18Osd))
              /\ out[j].ERR_d2H = Mul(IntraSd(samples[j].d2Hsd), IntraSd(samples[j].d2Hsd))

C15_CombinedError ==
    QuantCall => CombinedBy(call[1].result[1], Unknowns(call[1].args[1][1]),
                            Len(EnabledCurves(call[1].args[2])))

\* one enabled curve and a row with an intra-sample SD of 0.05 for d18O: the
\* combined error is 0.05 (its square 1/400)
C15_Witness ==
    /\ QuantCall
    /\ Len(EnabledCurves(call[1].args[2])) = 1
    /\ \E j \in 1..Len(call[1].result[1]) :
          /\ call[1].result[1][j].d18Osd = Norm(5, 100)
          /\ notna(call[1].result[1][j].d18O_ric[1])
          /\ call[1].result[1][j].ERR_d18O = Norm(25, 10000)

\* C16: for every point list of a channel (0 or 1 points, 2 or more points,
\* points whose raw values are all equal, points whose targets are all equal)
\* the reported R2 is within [0, 1].
FitCall == call # None /\ call[1].fn = "channel_fit"

C16_R2InUnitInterval ==
    FitCall => Leq(Num(0), call[1].result[3]) /\ Leq(call[1].result[3], Num(1))

\* two points with the same raw value and different targets: the system is
\* rank deficient and the R2 reported is 0
C16_Witness ==
    /\ FitCall
    /\ Len(call[1].args[1]) = 2
    /\ call[1].args[1][1] = call[1].args[1][2]
    /\ call[1].args[2][1] # call[1].args[2][2]
    /\ call[1].result[3] = Num(0)

\* C17: a channel with exactly one calibration point (raw, target) gets a = 1,
\* b = target - raw and R2 = 0, so that the curve maps raw exactly onto target.
\* As stated, with b the float the code computes for target - raw:
OnePointCall == call # None /\ call[1].fn = "one_point"

C17_OnePointMapsExactly ==
    OnePointCall =>
        /\ call[1].result[1] = Num(1)
        /\ call[1].result[2] = Float(Sub(call[1].args[2], call[1].args[1]))
        /\ call[1].result[3] = Num(0)
        /\ call[1].result[4] = call[1].args[2]

\* C17, amended: the channel gets a = 1, b = the float nearest to target - raw
\* and R2 = 0; the curve maps raw onto target exactly when target - raw is a
\* float, and otherwise up to the rounding of b and of the sum.
C17_OnePointChannel ==
    OnePointCall =>
        /\ call[1].result[1] = Num(1)
        /\ call[1].result[2] = Float(Sub(call[1].args[2], call[1].args[1]))
        /\ call[1].result[3] = Num(0)
        /\ call[1].result[4] = Float(Add(call[1].args[1], call[1].result[2]))
        /\ (call[1].result[2] = Sub(call[1].args[2], call[1].args[1]))
              => call[1].result[4] = call[1].args[2]

\* a point whose offset is a float, mapped exactly onto a target that is not
\* the raw value
C17_Witness ==
    /\ OnePointCall
    /\ call[1].args[1] # call[1].args[2]
    /\ call[1].result[2] = Sub(call[1].args[2], call[1].args[1])
    /\ call[1].result[4] = call[1].args[2]

\* C18: in a curve, a channel with zero points gets a = 1, b = 0, R2 = 0
\* whatever the points of the other channel, and two channels with the same
\* point list have the same coefficients: the two channels of one curve can be
\* in different branches.
NoPoint(x, a, b, R2) == x = <<>> => (a = Num(1) /\ b = Num(0) /\ R2 = Num(0))

ChannelsOf(c) ==
    { <<c.pts18_x, c.pts18_y, c.a18, c.b18, c.R2_18>>,
      <<c.pts2_x, c.pts2_y, c.a2, c.b2, c.R2_2>> }

AllChannels == UNION {ChannelsOf(curves[k]) : k \in 1..Len(curves)}

C18_ChannelsIndependent ==
    /\ \A k \in 1..Len(curves) :
          /\ NoPoint(curves[k].pts18_x, curves[k].a18, curves[k].b18, curves[k].R2_18)
          /\ NoPoint(curves[k].pts2_x, curves[k].a2, curves[k].b2, curves[k].R2_2)
    /\ \A p \in AllChannels : \A q \in AllChannels :
          (p[1] = q[1] /\ p[2] = q[2]) => p = q

\* a curve with two d18O points and a fitted line, and no d2H point
C18_Witness ==
    \E k \in 1..Len(curves) :
        /\ Len(curves[k].pts18_x) = 2
        /\ curves[k].a18 # Num(1)
        /\ curves[k].R2_18 = Num(1)
        /\ curves[k].pts2_x = <<>>

\* C19: compute_stats flags a channel NO exactly when its SD is defined and at
\* least the threshold (0.08 for d18O, 0.8 for d2H) and OK otherwise; the SD is
\* the sample standard deviation of the valid replicates, missing (not 0) when
\* there are fewer than two, and then both flags are OK.  (The SD fields hold
\* the squares, the thresholds are squared too.)
StatsCall == call # None /\ call[1].fn = "compute_stats" /\ call[1].result # None

SdOrMissing(v) == IF Len(DropNa(v)) < 2 THEN NaN ELSE VarianceOf(DropNa(v))

FlagOf(sd_sq, threshold_sq) ==
    IF isna(sd_sq) THEN "OK"
    ELSE IF sd_sq[1] * threshold_sq[2] >= threshold_sq[1] * sd_sq[2] THEN "NO" ELSE "OK"

StatsBy(st, block) ==
    /\ st.d18Osd = SdOrMissing([i \in 1..Len(block) |-> block[i].d18])
    /\ st.d2Hsd = SdOrMissing([i \in 1..Len(block) |-> block[i].d2H])
    /\ st.COND_d18O = FlagOf(st.d18Osd, Norm(64, 10000))
    /\ st.COND_d2H = FlagOf(st.d2Hsd, Norm(64, 100))
    /\ Len(DropNa([i \in 1..Len(block) |-> block[i].d18])) = 1
          => (isna(st.d18Osd) /\ st.COND_d18O = "OK")
    /\ Len(DropNa([i \in 1..Len(block) |-> block[i].d2H])) = 1
          => (isna(st.d2Hsd) /\ st.COND_d2H = "OK")

C19_StatsFlags == StatsCall => StatsBy(call[1].result[1], call[1].args[1])

\* three replicates with an SD of exactly 0.08 for d18O (flag NO) and of 0.64
\* for d2H (flag OK)
C19_Witness ==
    /\ StatsCall
    /\ call[1].result[1].n = 3
    /\ call[1].result[1].d18Osd = Norm(64, 10000)
    /\ call[1].result[1].COND_d18O = "NO"
    /\ call[1].result[1].COND_d2H = "OK"

\* two rows of which one has values: the SDs are missing and both flags OK
C19_OneReplicate ==
    /\ StatsCall
    /\ call[1].result[1].n = 2
    /\ isna(call[1].result[1].d18Osd)
    /\ call[1].result[1].COND_d18O = "OK"
    /\ call[1].result[1].COND_d2H = "OK"

\* C20: every row of the loaded table is classified exactly one way: a row
\* whose normalized name is a registry name is a standard row, an input of the
\* detector only; every other row is an unknown sample, an input of the
\* quantification only; a sheet with unrecognized names loads without error.
Registered(r) == norm_std_name(r.Identifier1) \in DOMAIN std_targets

AnalysesOf(rows) == [i \in 1..Len(rows) |-> rows[i].Analysis]

ClassifiedOnce(rows) ==
    /\ Len(StdRows(rows)) + Len(Unknowns(rows)) = Len(rows)
    /\ \A i \in 1..Len(rows) :
          IF Registered(rows[i])
          THEN rows[i] \in Range(StdRows(rows)) /\ rows[i] \notin Range(Unknowns(rows))
          ELSE rows[i] \in Range(Unknowns(rows)) /\ rows[i] \notin Range(StdRows(rows))

C20_RowsClassifiedOnce ==
    rm_df # None =>
        /\ ClassifiedOnce(rm_df[1])
        /\ (quant_df # None /\ quant_df[1] # <<>>)
              => AnalysesOf(quant_df[1])
                    = AnalysesOf(SelectSeq(rm_df[1], LAMBDA r : ~Registered(r)))
        /\ \A k \in 1..Len(curves) :
              curves[k].std_used
                  \subseteq {norm_std_name(r.Identifier1) :
                                 r \in {x \in Range(rm_df[1]) : Registered(x)}}
        /\ (file # None /\ MissingOf(file[1]) = {}) => msg.kind # "error"

\* a loaded table with two standard rows and an unknown row: one curve of the
\* two standards and one quantified row
C20_Witness ==
    /\ rm_df # None
    /\ Len(rm_df[1]) = 3
    /\ Len(StdRows(rm_df[1])) = 2
    /\ Len(curves) = 1
    /\ curves[1].std_used = {"ORMEA", "SSW"}
    /\ quant_df # None
    /\ Len(quant_df[1]) = 1


\* C21: when no name occurs twice in the ordered standard sequence, the
\* pattern length is the length of the whole sequence and the detector makes
\* exactly one block, which holds every standard row; and the pattern length
\* of a non-empty sequence is never 0.
NoRepeat(s) == \A i, j \in 1..Len(s) : s[i] = s[j] => i = j

BlocksCall == call # None /\ call[1].fn = "blocks"

C21_NoRepeatOneBlock ==
    BlocksCall =>
        /\ pattern_length(NamesOf(call[1].args[1])) > 0
        /\ NoRepeat(NamesOf(call[1].args[1]))
              => /\ pattern_length(NamesOf(call[1].args[1])) = Len(call[1].args[1])
                 /\ call[1].result = <<call[1].args[1]>>

\* the four standards, each once: one block of four rows
C21_Witness ==
    /\ BlocksCall
    /\ Len(call[1].args[1]) = 4
    /\ NoRepeat(NamesOf(call[1].args[1]))
    /\ Len(call[1].result) = 1
    /\ Len(call[1].result[1]) = 4

\* C22: within a block the rows of one standard name are merged.  In each
\* channel a curve has one point for every name of its block that has a
\* non-missing raw value there (the names in sorted order) and no other
\* point: the raw value of the point is the mean of the non-missing raw values
\* of that name in the block, its target is the registry target of the name.
\* A name without a raw value in one channel still gives its point to the other
\* channel and is one of the used standards.
BlockOfCurve(c, blocks) == blocks[CHOOSE i \in 1..Len(blocks) : c.id = "cal" \o ToString(i)]

PresentValues(block, n, ch) ==
    SelectSeq([i \in 1..Len(block) |-> IF block[i].STD_NAME = n THEN block[i][ch] ELSE NaN],
              notna)

MeanOfPresent(block, n, ch) ==
    Div(SumSeq(PresentValues(block, n, ch)), Num(Len(PresentValues(block, n, ch))))

NamesWith(block, ch) ==
    SelectSeq(NameOrder, LAMBDA n : PresentValues(block, n, ch) # <<>>)

MergedPoints(c, block) ==
    /\ c.std_used = {block[i].STD_NAME : i \in 1..Len(block)}
    /\ c.pts18_x = [k \in 1..Len(NamesWith(block, "d18Om")) |->
                       MeanOfPresent(block, NamesWith(block, "d18Om")[k], "d18Om")]
    /\ c.pts18_y = [k \in 1..Len(NamesWith(block, "d18Om")) |->
                       std_targets[NamesWith(block, "d18Om")[k]].O18]
    /\ c.pts2_x = [k \in 1..Len(NamesWith(block, "d2Hm")) |->
                       MeanOfPresent(block, NamesWith(block, "d2Hm")[k], "d2Hm")]
    /\ c.pts2_y = [k \in 1..Len(NamesWith(block, "d2Hm")) |->
                       std_targets[NamesWith(block, "d2Hm")[k]].H2]
    /\ Len(c.pts18_x) <= Cardinality(c.std_used)
    /\ Len(c.pts2_x) <= Cardinality(c.std_used)

C22_PointsAreMergedByName ==
    rm_df # None =>
        \A k \in 1..Len(curves) :
            MergedPoints(curves[k], BlockOfCurve(curves[k], BlocksOf(StdRows(rm_df[1]))))

\* the second block of the loaded table holds ORMEA twice, once without d2Hm:
\* its curve has the one d18O point -11 (the mean of -12 and -10) and the one
\* d2H point -80
C22_Witness ==
    /\ rm_df # None
    /\ \E k \in 1..Len(curves) :
          /\ Len(BlockOfCurve(curves[k], BlocksOf(StdRows(rm_df[1])))) = 2
          /\ curves[k].std_used = {"ORMEA"}
          /\ curves[k].pts18_x = <<Num(-11)>>
          /\ curves[k].pts18_y = <<STD_DEFAULTS["ORMEA"].O18>>
          /\ curves[k].pts2_x = <<Num(-80)>>

\* C23: when the targets of a point list of 2 or more points are all equal,
\* the fit reports R2 = 1, whatever the raw values are.  Refuted: the test is
\* made on the rounded ss_tot, which is not 0 when the rounded mean of the
\* equal targets is not the target itself.
AllEqual(s) == \A i, j \in 1..Len(s) : s[i] = s[j]

FloatFitCall == call # None /\ call[1].fn = "float_fit"

C23_ConstantTargetsGiveOne ==
    (FloatFitCall /\ AllEqual(call[1].args[2])) => call[1].result[3] = Num(1)

\* C24: a refresh of the injection list for a sample without a saved
\* selection ticks exactly the last three replicates, by Inj Nr, of those with
\* Good = 1 and Ignore = 0 (all of them when there are fewer than three), and
\* no replicate that fails the quality filter, with the filter of the list
\* switched on or off.
TickedSet(avars) == {avars[k].inj : k \in {j \in 1..Len(avars) : avars[j].var}}

LastThreeOf(S) == {n \in S : Cardinality({m \in S : m > n}) < 3}

QualityOk(rows, a) ==
    {rows[i].InjNr : i \in {j \in 1..Len(rows) :
        rows[j].Analysis = a /\ rows[j].Good = 1 /\ rows[j].Ignore = 0}}

DefaultSelection(rows, a) == LastThreeOf(QualityOk(rows, a))

\* a step that ends with refresh_injection_list
RefreshStep ==
    \/ \E f \in SelectFiles : LoadCsvRows(f.cols, f.rows)
    \/ \E k \in 1..Len(sample_items) : on_sample_change(k)
    \/ toggle_only_stable

Unsaved(cur, sel) == cur # None /\ cur[1] \notin DOMAIN sel

RejectedApply(m) == m.kind = "error" /\ m.text = "Valori non validi per"

C25_RejectedEditChangesNothing ==
    [][RejectedApply(msg')
          => /\ std_targets' = std_targets
             /\ curves' = curves
             /\ curves_summary' = curves_summary
             /\ quant_df' = quant_df]_vars

\* C26: once a raw_means table was loaded (detect_curves_from_blocks has run),
\* curves_summary has one row per curve of the curve list, in the same order,
\* with the id and the coefficients of that curve; no summary counts as no
\* rows.  Refuted: the early return on a table without standards empties the
\* curve list and leaves the summary of the previous table.
SummaryRowOf(row, c) ==
    /\ row.Curve = c.id
    /\ row.a18 = c.a18 /\ row.b18 = c.b18 /\ row.R2_18 = c.R2_18
    /\ row.a2 = c.a2 /\ row.b2 = c.b2 /\ row.R2_2 = c.R2_2

SummaryMatches(summary, cs) ==
    IF summary = None THEN cs = <<>>
    ELSE /\ Len(summary[1]) = Len(cs)
         /\ \A k \in 1..Len(cs) : SummaryRowOf(summary[1][k], cs[k])

C26_SummaryMatchesCurves == rm_df # None => SummaryMatches(curves_summary, curves)

\* C29: after every selection step sample_selections maps no sample to an
\* empty selection; a step that leaves no injection of the current sample
\* ticked and saves removes the entry of that sample (so that its next refresh
\* seeds the default selection); and every raw mean written by
\* apply_all_to_raw_means is the statistics of at least one injection.
NoEmptySelection(sel) == \A a \in DOMAIN sel : sel[a] # <<>>

\* a step that ends with _auto_save_current_selection on the new check boxes
SavingStep ==
    \/ \E i \in 1..Len(analysis_vars) : on_injection_change(i)
    \/ select_all
    \/ select_none
    \/ (select_last3 /\ df # None /\ current_analysis # None)
    \/ (apply_all_to_raw_means /\ df # None)

C29_NoEmptySelectionSaved ==
    [][/\ NoEmptySelection(sample_selections')
       /\ (SavingStep /\ current_analysis # None /\ TickedSet(analysis_vars') = {})
             => current_analysis[1] \notin DOMAIN sample_selections'
       /\ \A a \in DOMAIN raw_means' : raw_means'[a].n >= 1]_vars

\* the raw means were written while the list of the current sample had rows
\* and none of them ticked: the sample has no entry, another sample was
\* aggregated
C29_Witness ==
    /\ msg.kind = "info"
    /\ Unsaved(current_analysis, sample_selections)
    /\ analysis_vars # <<>>
    /\ TickedSet(analysis_vars) = {}
    /\ DOMAIN raw_means # {}
    /\ DOMAIN sample_selections # {}

\* C27: in every row of a table built by compute_quant_table the d18O_ric and
\* the d2H_ric columns are as many as the enabled curves, and column k holds
\* the raw mean reconciled through the k-th enabled curve of the curve list,
\* whatever the id of that curve.
NumEnabled(cs) == Cardinality({j \in 1..Len(cs) : cs[j].enabled})

\* the position in the list of the k-th enabled curve
KthEnabled(cs, k) ==
    CHOOSE j \in 1..Len(cs) :
        cs[j].enabled /\ Cardinality({i \in 1..j : cs[i].enabled}) = k

Through18(c, r) == IF isna(r.d18Om) THEN NaN ELSE Add(Mul(c.a18, r.d18Om), c.b18)

Through2(c, r) == IF isna(r.d2Hm) THEN NaN ELSE Add(Mul(c.a2, r.d2Hm), c.b2)

RicColumnsOf(row, r, cs) ==
    /\ Len(row.d18O_ric) = NumEnabled(cs)
    /\ Len(row.d2H_ric) = NumEnabled(cs)
    /\ \A k \in 1..NumEnabled(cs) :
          /\ row.d18O_ric[k] = Through18(cs[KthEnabled(cs, k)], r)
          /\ row.d2H_ric[k] = Through2(cs[KthEnabled(cs, k)], r)

QuantTableCall ==
    /\ call # None
    /\ call[1].fn = "compute_quant_table"
    /\ call[1].result # None
    /\ call[1].result[1] # <<>>

C27_RicColumnsFollowEnabled ==
    QuantTableCall =>
        /\ Len(call[1].result[1]) = Len(Unknowns(call[1].args[1][1]))
        /\ \A i \in 1..Len(call[1].result[1]) :
              RicColumnsOf(call[1].result[1][i], Unknowns(call[1].args[1][1])[i],
                           call[1].args[2])

\* two curves, the first disabled: the only column holds the value through
\* cal2, which differs from the value through cal1
C27_Witness ==
    /\ QuantTableCall
    /\ Len(call[1].args[2]) = 2
    /\ ~call[1].args[2][1].enabled
    /\ call[1].args[2][2].enabled
    /\ call[1].args[2][2].id = "cal2"
    /\ \E i \in 1..Len(call[1].result[1]) :
          /\ Len(call[1].result[1][i].d18O_ric) = 1
          /\ ~isna(call[1].result[1][i].d18O_ric[1])
          /\ call[1].result[1][i].d18O_ric[1]
                = Through18(call[1].args[2][2], Unknowns(call[1].args[1][1])[i])
          /\ call[1].result[1][i].d18O_ric[1]
                # Through18(call[1].args[2][1], Unknowns(call[1].args[1][1])[i])

\* the curve list with exactly the curves of the given ids enabled
EnableOnly(cs, ids) == [k \in 1..Len(cs) |-> [cs[k] EXCEPT !.enabled = (cs[k].id \in ids)]]

SamplesOf(rm, ids) == SelectSeq(Unknowns(rm), LAMBDA r : r.Identifier1 \in ids)

\* C28: every Calcola of the custom window that computes (a curve and a
\* sample are selected; the window passes no empty list) stores the table
\* that compute_quant_table builds from the same unknown rows with exactly the
\* selected curves enabled, and no Calcola changes the curves, their enabled
\* flags included, or the main quantification table.
C28_CustomEqualsMain ==
    [][\A ss \in SUBSET SampleIdentifiers : \A sc \in SUBSET CurveIds :
          calculate_custom_quant(ss, sc) =>
              /\ UNCHANGED <<curves, quant_df>>
              /\ (ss # {} /\ sc # {}) =>
                    custom_quant_df'
                        = compute_quant_table(Some(SamplesOf(rm_df[1], ss)),
                                              EnableOnly(curves, sc))]_vars

\* the custom table was computed through both curves while the main table
\* holds the column of the only enabled one
C28_Witness ==
    /\ custom_window
    /\ Len(curves) = 2
    /\ Len(EnabledCurves(curves)) = 1
    /\ quant_df # None /\ quant_df[1] # <<>>
    /\ Len(quant_df[1][1].d18O_ric) = 1
    /\ custom_quant_df # None /\ custom_quant_df[1] # <<>>
    /\ Len(custom_quant_df[1][1].d18O_ric) = 2
    /\ custom_quant_df[1][1].d18O_ric[1] # custom_quant_df[1][1].d18O_ric[2]

\* C30: the registry always holds exactly the names of STD_NAMES, each with a
\* target for both channels, whatever was applied, reset or cancelled in the
\* targets dialog; so every block of standard rows of the loaded table has its
\* curve, and the curve's used standards are the names of the rows of the
\* block.
RegistryComplete(targets) ==
    /\ DOMAIN targets = STD_NAMES
    /\ \A nm \in STD_NAMES : DOMAIN targets[nm] = {"O18", "H2"}

EveryStandardUsed(rm, cs) ==
    IF StdRows(rm) = <<>> THEN cs = <<>>
    ELSE /\ Len(cs) = Len(BlocksOf(StdRows(rm)))
         /\ \A k \in 1..Len(cs) :
               cs[k].std_used
                   = {BlocksOf(StdRows(rm))[k][i].STD_NAME :
                         i \in 1..Len(BlocksOf(StdRows(rm))[k])}

C30_RegistryNamesAreStdNames ==
    /\ RegistryComplete(std_targets)
    /\ rm_df # None => EveryStandardUsed(rm_df[1], curves)

\* an edited registry was applied and the dialog closed, with two curves
\* detected from the loaded table
C30_Witness ==
    /\ dialog = None
    /\ std_targets # STD_DEFAULTS
    /\ rm_df # None
    /\ Len(curves) = 2
    /\ EveryStandardUsed(rm_df[1], curves)
====
